---------------------------- MODULE Spec2Model ----------------------------
(***************************************************************************)
(* Model of the corrosion bytecode pipeline: the single-pass Pratt         *)
(* compiler of src/src/compiler.rs and the stack VM of src/src/vm.rs,      *)
(* with the values of src/src/value.rs.                                    *)
(*                                                                         *)
(* Indices (token cursor, constant index, stack slot, pc) are 0-based as   *)
(* in the source; a TLA+ sequence s is read at s[i + 1].                   *)
(* A Rust panic (index out of bounds, usize underflow, expect on None) is  *)
(* the outcome "panic"; an anyhow error is the outcome "err".              *)
(***************************************************************************)
EXTENDS Integers, Sequences, FiniteSets, TLC

(***************************************************************************)
(* Bounds of the model.                                                    *)
(***************************************************************************)
\* number of statement fragments an input program is assembled from
MaxStmts == 3
\* length of the token streams enumerated exhaustively over RawAlphabet
MaxRaw == 3
\* number of calls of VM::interpret_source on the one VM
MaxCalls == 2
\* number of iterations of a run of VM::run whose heads are recorded
MaxTrace == 32
\* length of the source texts enumerated exhaustively over SourceAlphabet
MaxSrc == 3
\* the number literals of the expression programs are 0..MaxNum
MaxNum == 1

(***************************************************************************)
(* f64 payload of Value::Number.  A double is modelled as a sign, and      *)
(* either a non-negative rational num/den in lowest terms (class "fin",    *)
(* with a signed zero), an infinity or a NaN.  Rounding and overflow are   *)
(* not modelled: the literals of the inputs are small integers.            *)
(***************************************************************************)
RECURSIVE Gcd(_, _)
Gcd(a, b) ==
    IF b = 0 THEN a ELSE Gcd(b, a % b)

Abs(x) ==
    IF x < 0 THEN -x ELSE x

F64NaN ==
    [cls |-> "nan", neg |-> FALSE, num |-> 0, den |-> 0]

F64Inf(neg) ==
    [cls |-> "inf", neg |-> neg, num |-> 1, den |-> 0]

\* the double nearest to sn/d (d > 0); a zero takes the sign zneg
F64Fin(sn, d, zneg) ==
    IF sn = 0
    THEN [cls |-> "fin", neg |-> zneg, num |-> 0, den |-> 1]
    ELSE LET g == Gcd(Abs(sn), d)
         IN  [cls |-> "fin", neg |-> sn < 0, num |-> Abs(sn) \div g, den |-> d \div g]

F64Int(n) ==
    F64Fin(n, 1, FALSE)

F64IsZero(x) ==
    x.cls = "fin" /\ x.num = 0

F64Signed(x) ==
    IF x.neg THEN -x.num ELSE x.num

\* f64 `-x`
F64Neg(x) ==
    IF x.cls = "nan" THEN x ELSE [x EXCEPT !.neg = ~x.neg]

\* f64 `a + b`
F64Add(a, b) ==
    IF a.cls = "nan" \/ b.cls = "nan" THEN F64NaN
    ELSE IF a.cls = "inf" /\ b.cls = "inf"
         THEN IF a.neg = b.neg THEN a ELSE F64NaN
    ELSE IF a.cls = "inf" THEN a
    ELSE IF b.cls = "inf" THEN b
    ELSE F64Fin(F64Signed(a) * b.den + F64Signed(b) * a.den, a.den * b.den,
                a.neg /\ b.neg)

\* f64 `a - b`
F64Sub(a, b) ==
    F64Add(a, F64Neg(b))

\* f64 `a * b`
F64Mul(a, b) ==
    LET neg == a.neg # b.neg
    IN  IF a.cls = "nan" \/ b.cls = "nan" THEN F64NaN
        ELSE IF a.cls = "inf" \/ b.cls = "inf"
             THEN IF F64IsZero(a) \/ F64IsZero(b) THEN F64NaN ELSE F64Inf(neg)
        ELSE F64Fin(F64Signed(a) * F64Signed(b), a.den * b.den, neg)

\* f64 `a / b`
F64Div(a, b) ==
    LET neg == a.neg # b.neg
    IN  IF a.cls = "nan" \/ b.cls = "nan" THEN F64NaN
        ELSE IF a.cls = "inf"
             THEN IF b.cls = "inf" THEN F64NaN ELSE F64Inf(neg)
        ELSE IF b.cls = "inf" THEN F64Fin(0, 1, neg)
        ELSE IF F64IsZero(b)
             THEN IF F64IsZero(a) THEN F64NaN ELSE F64Inf(neg)
        ELSE F64Fin((IF neg THEN -1 ELSE 1) * a.num * b.den, a.den * b.num, neg)

\* f64 `a == b`: a NaN equals nothing, the two zeros are equal
F64Eq(a, b) ==
    /\ a.cls # "nan"
    /\ b.cls # "nan"
    /\ a.cls = b.cls
    /\ IF a.cls = "inf" THEN a.neg = b.neg
       ELSE \/ a.num = 0 /\ b.num = 0
            \/ a = b

\* f64 `a < b`
F64Lt(a, b) ==
    /\ a.cls # "nan"
    /\ b.cls # "nan"
    /\ IF a.cls = "inf" THEN a.neg /\ ~(b.cls = "inf" /\ b.neg)
       ELSE IF b.cls = "inf" THEN ~b.neg
       ELSE F64Signed(a) * b.den < F64Signed(b) * a.den

\* f64 `a > b`
F64Gt(a, b) ==
    F64Lt(b, a)

(***************************************************************************)
(* value.rs: Value and Object.  Obj(Object::String(s)) is kind "String".   *)
(***************************************************************************)
Number(f) ==
    [k |-> "Number", f |-> f, b |-> FALSE, s |-> ""]

Boolean(b) ==
    [k |-> "Boolean", f |-> F64NaN, b |-> b, s |-> ""]

Nil ==
    [k |-> "Nil", f |-> F64NaN, b |-> FALSE, s |-> ""]

ObjString(s) ==
    [k |-> "String", f |-> F64NaN, b |-> FALSE, s |-> s]

\* Value::is_falsey
is_falsey(v) ==
    \/ v.k = "Boolean" /\ v.b = FALSE
    \/ v.k = "Nil"

\* an equality that compares the variants only (C7 tells it from ValueEq)
ValueEq_of_variants(self, other) ==
    self.k = other.k

\* impl PartialEq for Value
ValueEq(self, other) ==
    CASE self.k = "Number"  -> other.k = "Number" /\ F64Eq(self.f, other.f)
      [] self.k = "Boolean" -> other.k = "Boolean" /\ self.b = other.b
      [] self.k = "String"  -> other.k = "String" /\ self.s = other.s
      [] self.k = "Nil"     -> other.k = "Nil"


(***************************************************************************)
(* value.rs: Token.  vm.rs: Opcode / OpcodeType.                           *)
(***************************************************************************)
Token(ty, lexeme, literal) ==
    [ty |-> ty, lexeme |-> lexeme, literal |-> literal]

\* the variants of enum OpcodeType in declaration order; `as usize` is the
\* position, counted from 0
OpcodeNames ==
    << "Return", "Constant", "Negate", "Add", "Subtract", "Mult", "Div", "Nil",
       "True", "False", "Not", "Equal", "GreaterThan", "LessThan", "Print",
       "Pop", "DefineGlobal", "GetGlobal", "SetGlobal", "GetLocal", "SetLocal",
       "Unknown" >>

\* OpcodeType::X as usize, written OpcodeType.X
OpcodeType ==
    [n \in {OpcodeNames[j] : j \in 1..Len(OpcodeNames)} |->
        (CHOOSE j \in 1..Len(OpcodeNames) : OpcodeNames[j] = n) - 1]

\* Opcode::ty: the name of the opcode a word decodes to
OpcodeTy(word) ==
    IF word \in 0..20 THEN OpcodeNames[word + 1] ELSE "Unknown"

\* the opcodes the VM reads an operand word for (VM::run calls next_op again)
HasOperand(word) ==
    OpcodeTy(word) \in {"Constant", "DefineGlobal", "GetGlobal", "SetGlobal",
                        "GetLocal", "SetLocal"}

(***************************************************************************)
(* compiler.rs: Precedence, ParseRule, get_parse_rule.                     *)
(***************************************************************************)
PrecedenceNames ==
    << "None", "Assignment", "Or", "And", "Equality", "Comparison", "Term",
       "Factor", "Unary", "Call", "Primary", "PrecedenceCount" >>

\* the discriminant of Precedence::X, written Precedence.X; the derived
\* PartialOrd compares discriminants
Precedence ==
    [n \in {PrecedenceNames[j] : j \in 1..Len(PrecedenceNames)} |->
        (CHOOSE j \in 1..Len(PrecedenceNames) : PrecedenceNames[j] = n) - 1]

\* a next that stays in the tier (C12 tells it from PrecedenceNext)
PrecedenceNext_of_same_tier(prec) ==
    prec

\* Precedence::next
PrecedenceNext(prec) ==
    IF prec < Precedence.PrecedenceCount THEN prec + 1 ELSE Precedence.None

ParseRule(prefix, infix, precedence) ==
    [prefix |-> prefix, infix |-> infix, precedence |-> precedence]

\* a rule table with `*` and `/` at Term, the tier of `+` and `-` (C11
\* tells it from get_parse_rule)
get_parse_rule_of_one_tier(ty) ==
    CASE ty = "LeftParen"    -> ParseRule("grouping", "none", Precedence.None)
      [] ty = "Minus"        -> ParseRule("unary", "binary", Precedence.Term)
      [] ty = "Plus"         -> ParseRule("none", "binary", Precedence.Term)
      [] ty = "ForwardSlash" -> ParseRule("none", "binary", Precedence.Term)
      [] ty = "Star"         -> ParseRule("none", "binary", Precedence.Term)
      [] ty = "Bang"         -> ParseRule("unary", "none", Precedence.None)
      [] ty = "BangEqual"    -> ParseRule("none", "binary", Precedence.Equality)
      [] ty = "EqualEqual"   -> ParseRule("none", "binary", Precedence.Equality)
      [] ty = "Gt"           -> ParseRule("none", "binary", Precedence.Comparison)
      [] ty = "Ge"           -> ParseRule("none", "binary", Precedence.Comparison)
      [] ty = "Lt"           -> ParseRule("none", "binary", Precedence.Comparison)
      [] ty = "Le"           -> ParseRule("none", "binary", Precedence.Comparison)
      [] ty = "Ident"        -> ParseRule("variable", "none", Precedence.None)
      [] ty = "String"       -> ParseRule("string", "none", Precedence.None)
      [] ty = "Number"       -> ParseRule("number", "none", Precedence.None)
      [] ty = "False"        -> ParseRule("literal", "none", Precedence.None)
      [] ty = "True"         -> ParseRule("literal", "none", Precedence.None)
      [] ty = "Nil"          -> ParseRule("literal", "none", Precedence.None)
      [] OTHER               -> ParseRule("none", "none", Precedence.None)

\* get_parse_rule; "none" is Option::None
get_parse_rule(ty) ==
    CASE ty = "LeftParen"    -> ParseRule("grouping", "none", Precedence.None)
      [] ty = "Minus"        -> ParseRule("unary", "binary", Precedence.Term)
      [] ty = "Plus"         -> ParseRule("none", "binary", Precedence.Term)
      [] ty = "ForwardSlash" -> ParseRule("none", "binary", Precedence.Factor)
      [] ty = "Star"         -> ParseRule("none", "binary", Precedence.Factor)
      [] ty = "Bang"         -> ParseRule("unary", "none", Precedence.None)
      [] ty = "BangEqual"    -> ParseRule("none", "binary", Precedence.Equality)
      [] ty = "EqualEqual"   -> ParseRule("none", "binary", Precedence.Equality)
      [] ty = "Gt"           -> ParseRule("none", "binary", Precedence.Comparison)
      [] ty = "Ge"           -> ParseRule("none", "binary", Precedence.Comparison)
      [] ty = "Lt"           -> ParseRule("none", "binary", Precedence.Comparison)
      [] ty = "Le"           -> ParseRule("none", "binary", Precedence.Comparison)
      [] ty = "Ident"        -> ParseRule("variable", "none", Precedence.None)
      [] ty = "String"       -> ParseRule("string", "none", Precedence.None)
      [] ty = "Number"       -> ParseRule("number", "none", Precedence.None)
      [] ty = "False"        -> ParseRule("literal", "none", Precedence.None)
      [] ty = "True"         -> ParseRule("literal", "none", Precedence.None)
      [] ty = "Nil"          -> ParseRule("literal", "none", Precedence.None)
      [] OTHER               -> ParseRule("none", "none", Precedence.None)

(***************************************************************************)
(* compiler.rs: Chunk.                                                     *)
(***************************************************************************)
\* Chunk::new
ChunkNew ==
    [instructions |-> << >>, constants |-> << >>]

\* Chunk::add_opcode
add_opcode(chunk, code) ==
    [chunk EXCEPT !.instructions = Append(@, code)]

\* Chunk::add_opcodes
add_opcodes(chunk, a, b) ==
    [chunk EXCEPT !.instructions = Append(Append(@, a), b)]

\* Chunk::push_constant: the chunk after the push; the index returned is
\* Len(chunk.constants) of the chunk before it
push_constant(chunk, v) ==
    [chunk EXCEPT !.constants = Append(@, v)]

\* an add_constant that leaves out the operand word (C1 tells it from
\* add_constant)
add_constant_without_index(chunk, v) ==
    add_opcode(push_constant(chunk, v), OpcodeType.Constant)

\* Chunk::add_constant
add_constant(chunk, v) ==
    LET cindex == Len(chunk.constants)
    IN  add_opcode(add_opcode(push_constant(chunk, v), OpcodeType.Constant), cindex)

\* an add_constant_ident that stores the literal of the token, as add_constant
\* is called with, in place of its lexeme (C6 tells it from add_constant_ident)
add_constant_ident_of_literal(chunk, token) ==
    push_constant(chunk, token.literal)

\* Chunk::add_constant_ident
add_constant_ident(chunk, token) ==
    push_constant(chunk, ObjString(token.lexeme))

(***************************************************************************)
(* compiler.rs: Compiler (locals, scope_depth) and Parser.                 *)
(*                                                                         *)
(* A parser state p is the struct Parser (tokens, i, bytecode, compiler)   *)
(* together with the outcome of the call that produced it: p.res is "ok"   *)
(* (Ok), "err" (Err, the message in p.msg) or "panic", and p.ret is the    *)
(* usize an Ok carries.  p.out is what the parser printed on stdout.       *)
(* p.obs records, for the properties below, what the compile did and       *)
(* where; nothing in the parser reads it:                                  *)
(*   resolved  [name, slot, locals] named_variable resolved name to slot   *)
(*                                  (-1: a global) among these locals      *)
(*   localOps  [at, slot, nlocals]  a GetLocal/SetLocal emitted at word at *)
(*   globalOps [at, name]           a global opcode emitted at word at     *)
(*   scopes    [before, after, code] a call of end_scope                   *)
(*   marks     [kind, failed, from, at, nlocals]                           *)
(*                                  a declaration emitted the words from   *)
(*                                  `from` up to before `at`               *)
(*   blocks    [from, to]           the words a block statement emitted    *)
(*   noprefix  the tokens an expression started at without a prefix rule   *)
(*   syncs     the cursor at the entry and at the return of each synchronize *)
(*                                                                         *)
(* A function that calls others in sequence is written with one local      *)
(* operator per point of return: Parsed(p1), Expected(p2), ... is the rest *)
(* of the function once the call returned p1, p2, ...; `?` is its test     *)
(* `IF p1.res # "ok" THEN p1`.                                             *)
(***************************************************************************)
\* Local { name, depth }
Local(name, depth) ==
    [name |-> name, depth |-> depth]

\* Compiler::new
CompilerNew ==
    [locals |-> << >>, scope_depth |-> 0]

ObsNew ==
    [resolved |-> << >>, localOps |-> << >>, globalOps |-> << >>,
     scopes |-> << >>, marks |-> << >>, blocks |-> << >>, noprefix |-> << >>,
     syncs |-> << >>]

\* the Parser built at the start of Compiler::compile
ParserNew(tokens) ==
    [tokens |-> tokens, i |-> 0, bytecode |-> ChunkNew, compiler |-> CompilerNew,
     res |-> "ok", msg |-> "", ret |-> 0, out |-> << >>, obs |-> ObsNew]

Ok(p) ==
    [p EXCEPT !.res = "ok", !.msg = ""]

\* bail!(..)
Bail(p, msg) ==
    [p EXCEPT !.res = "err", !.msg = msg]

\* an out-of-bounds index
Panic(p) ==
    [p EXCEPT !.res = "panic"]

\* a resolve_local that scans the locals from the bottom up (C13 tells it
\* from resolve_local)
resolve_local_from_bottom(compiler, name) ==
    LET hits == {j \in 0..(Len(compiler.locals) - 1) :
                     compiler.locals[j + 1].name.lexeme = name.lexeme}
    IN  IF hits = {} THEN -1
        ELSE CHOOSE j \in hits : \A h \in hits : j <= h

\* Compiler::resolve_local: the index of the topmost local with that
\* lexeme, -1 for None
resolve_local(compiler, name) ==
    LET hits == {j \in 0..(Len(compiler.locals) - 1) :
                     compiler.locals[j + 1].name.lexeme = name.lexeme}
    IN  IF hits = {} THEN -1
        ELSE CHOOSE j \in hits : \A h \in hits : h <= j

\* Compiler::push_local
push_local(compiler, token) ==
    [compiler EXCEPT !.locals = Append(@, Local(token, compiler.scope_depth))]

\* Compiler::pop_local
pop_local(compiler) ==
    [compiler EXCEPT !.locals = SubSeq(@, 1, Len(@) - 1)]

\* Parser::advance
advance(p, n) ==
    [p EXCEPT !.i = @ + n]

\* whether Parser::current reads inside self.tokens
HasCurrent(p) ==
    p.i < Len(p.tokens)

\* whether Parser::prev reads inside self.tokens (i - 1 underflows at 0)
HasPrev(p) ==
    p.i >= 1 /\ p.i - 1 < Len(p.tokens)

\* Parser::current
current(p) ==
    p.tokens[p.i + 1]

\* Parser::prev
prev(p) ==
    p.tokens[p.i]

\* p with the chunk operation applied to self.bytecode
Emit1(p, code) ==
    [p EXCEPT !.bytecode = add_opcode(@, code)]

Emit2(p, a, b) ==
    [p EXCEPT !.bytecode = add_opcodes(@, a, b)]

\* Parser::expect
expect(p, ty, message) ==
    IF ~HasCurrent(p) THEN Panic(p)
    ELSE IF current(p).ty = ty THEN Ok(advance(p, 1))
    ELSE Bail(p, message)

\* Parser::begin_scope
begin_scope(p) ==
    [p EXCEPT !.compiler.scope_depth = @ + 1]

\* an end_scope loop that also removes the locals of the scope returned to
\* (C5 tells it from end_scope_loop)
end_scope_loop_inclusive_while(p) ==
    /\ Len(p.compiler.locals) > 0
    /\ p.compiler.locals[Len(p.compiler.locals)].depth >= p.compiler.scope_depth

end_scope_loop_inclusive_pass(p) ==
    IF end_scope_loop_inclusive_while(p)
    THEN Emit1([p EXCEPT !.compiler = pop_local(@)], OpcodeType.Pop)
    ELSE p

RECURSIVE end_scope_loop_inclusive_passes(_, _)
end_scope_loop_inclusive_passes(p, k) ==
    LET Half(q) == IF ~end_scope_loop_inclusive_while(q) THEN q
                   ELSE end_scope_loop_inclusive_passes(q, k - 1)
    IN  IF k = 0 THEN end_scope_loop_inclusive_pass(p)
        ELSE Half(end_scope_loop_inclusive_passes(p, k - 1))

RECURSIVE end_scope_loop_inclusive_from(_, _)
end_scope_loop_inclusive_from(p, k) ==
    LET Passed(q) == IF ~end_scope_loop_inclusive_while(q) THEN q
                     ELSE end_scope_loop_inclusive_from(q, k + 1)
    IN  Passed(end_scope_loop_inclusive_passes(p, k))

end_scope_loop_inclusive(p) ==
    end_scope_loop_inclusive_from(p, 0)

\* the condition of the `while` of Parser::end_scope
end_scope_loop_while(p) ==
    /\ Len(p.compiler.locals) > 0
    /\ p.compiler.locals[Len(p.compiler.locals)].depth > p.compiler.scope_depth

\* one pass of that loop: p itself once the loop has been left
end_scope_loop_pass(p) ==
    IF end_scope_loop_while(p)
    THEN Emit1([p EXCEPT !.compiler = pop_local(@)], OpcodeType.Pop)
    ELSE p

\* 2^k passes of that loop, one after the other, or those up to the one that
\* leaves it
RECURSIVE end_scope_loop_passes(_, _)
end_scope_loop_passes(p, k) ==
    LET Half(q) == IF ~end_scope_loop_while(q) THEN q
                   ELSE end_scope_loop_passes(q, k - 1)
    IN  IF k = 0 THEN end_scope_loop_pass(p)
        ELSE Half(end_scope_loop_passes(p, k - 1))

\* the passes of that loop up to the one that leaves it, 2^k at a time
RECURSIVE end_scope_loop_from(_, _)
end_scope_loop_from(p, k) ==
    LET Passed(q) == IF ~end_scope_loop_while(q) THEN q
                     ELSE end_scope_loop_from(q, k + 1)
    IN  Passed(end_scope_loop_passes(p, k))

\* the loop of Parser::end_scope
end_scope_loop(p) ==
    end_scope_loop_from(p, 0)

\* Parser::end_scope (scope_depth is a usize: 0 - 1 panics)
end_scope(p) ==
    LET n == Len(p.bytecode.instructions)
        Seen(q) == [q EXCEPT !.obs.scopes = Append(@,
                       [before |-> p.compiler, after |-> q.compiler,
                        code |-> SubSeq(q.bytecode.instructions, n + 1,
                                        Len(q.bytecode.instructions))])]
    IN  IF p.compiler.scope_depth = 0 THEN Panic(p)
        ELSE Seen(end_scope_loop([p EXCEPT !.compiler.scope_depth = @ - 1]))

\* a synchronize that does not look at the token just consumed (C29 tells
\* it from synchronize)
RECURSIVE synchronize_by_lookahead(_)
synchronize_by_lookahead(p) ==
    IF ~HasCurrent(p) THEN Panic(p)
    ELSE IF current(p).ty = "Eof" THEN Ok(p)
    ELSE IF ~HasPrev(p) THEN Panic(p)
    ELSE IF current(p).ty \in {"Struct", "Fn", "Let", "For", "If", "While",
                               "Print", "Return"}
         THEN Ok(p)
    ELSE synchronize_by_lookahead(advance(p, 1))

\* Parser::synchronize
RECURSIVE synchronize(_)
synchronize(p) ==
    IF ~HasCurrent(p) THEN Panic(p)
    ELSE IF current(p).ty = "Eof" THEN Ok(p)
    ELSE IF ~HasPrev(p) THEN Panic(p)
    ELSE IF prev(p).ty = "Semicolon" THEN Ok(p)
    ELSE IF current(p).ty \in {"Struct", "Fn", "Let", "For", "If", "While",
                               "Print", "Return"}
         THEN Ok(p)
    ELSE synchronize(advance(p, 1))

\* Parser::declare_variable
declare_variable(p) ==
    IF p.compiler.scope_depth = 0 THEN Ok(p)
    ELSE Ok([p EXCEPT !.compiler = push_local(@, prev(p))])

\* Parser::parse_variable; p.ret is the usize returned
parse_variable(p) ==
    LET Declared(p2) ==
            IF p2.compiler.scope_depth > 0 THEN [p2 EXCEPT !.ret = 0]
            ELSE [p2 EXCEPT !.bytecode = add_constant_ident(@, prev(p2)),
                            !.ret = Len(p2.bytecode.constants)]
        Expected(p1) ==
            IF p1.res # "ok" THEN p1 ELSE Declared(declare_variable(p1))
    IN  Expected(expect(p, "Ident", "Expected name for let declaration"))

\* a define_variable that emits DefineGlobal at every depth (C30 tells it
\* from define_variable)
define_variable_everywhere(p, global_index) ==
    Emit2(p, OpcodeType.DefineGlobal, global_index)

\* Parser::define_variable
define_variable(p, global_index) ==
    IF p.compiler.scope_depth > 0 THEN p
    ELSE Emit2(p, OpcodeType.DefineGlobal, global_index)

RECURSIVE declaration(_), let_declaration(_), statement(_), block(_),
          block_pass(_), block_passes(_, _), block_from(_, _),
          expression(_), expression_statement(_), print_statement(_),
          named_variable(_, _, _), grouping(_, _), unary(_, _), binary(_, _),
          parse_precedence(_, _), parse_infix(_, _, _)

\* Parser::string
string(p, can_assign) ==
    Ok([p EXCEPT !.bytecode = add_constant(@, prev(p).literal)])

\* Parser::number
number(p, can_assign) ==
    IF prev(p).ty = "Number"
    THEN Ok([p EXCEPT !.bytecode = add_constant(@, prev(p).literal)])
    ELSE Bail(p, "Expected number")

\* Parser::literal
literal(p, can_assign) ==
    CASE prev(p).ty = "Nil"   -> Ok(Emit1(p, OpcodeType.Nil))
      [] prev(p).ty = "False" -> Ok(Emit1(p, OpcodeType.False))
      [] prev(p).ty = "True"  -> Ok(Emit1(p, OpcodeType.True))
      [] OTHER                -> Panic(p)

\* Parser::variable
variable(p, can_assign) ==
    named_variable(p, prev(p), can_assign)

\* Parser::named_variable
named_variable(p, name, can_assign) ==
    LET slot   == resolve_local(p.compiler, name)
        local  == slot >= 0
        get    == IF local THEN OpcodeType.GetLocal ELSE OpcodeType.GetGlobal
        set    == IF local THEN OpcodeType.SetLocal ELSE OpcodeType.SetGlobal
        arg    == IF local THEN slot ELSE Len(p.bytecode.constants)
        \* the observation of the opcode about to be emitted by q
        Seen(q) == IF local
                   THEN [q EXCEPT !.obs.localOps = Append(@,
                            [at |-> Len(q.bytecode.instructions), slot |-> slot,
                             nlocals |-> Len(q.compiler.locals)])]
                   ELSE [q EXCEPT !.obs.globalOps = Append(@,
                            [at |-> Len(q.bytecode.instructions),
                             name |-> name.lexeme])]
        \* after `self.expression()?` returned p2
        Assigned(p2) == IF p2.res # "ok" THEN p2
                        ELSE Ok(Emit2(Seen(p2), set, arg))
        \* after the resolution of the name left p1
        Resolved(p1) == IF ~HasCurrent(p1) THEN Panic(p1)
                        ELSE IF can_assign /\ current(p1).ty = "Equal"
                        THEN Assigned(expression(advance(p1, 1)))
                        ELSE Ok(Emit2(Seen(p1), get, arg))
        \* the observation of the resolution
        Noted(q) == [q EXCEPT !.obs.resolved = Append(@,
                        [name |-> name.lexeme, slot |-> slot,
                         locals |-> p.compiler.locals])]
    IN  Resolved(Noted(IF local THEN p
                       ELSE [p EXCEPT !.bytecode = add_constant_ident(@, name)]))

\* Parser::grouping
grouping(p, can_assign) ==
    LET Parsed(p1) == IF p1.res # "ok" THEN p1
                      ELSE expect(p1, "RightParen", "Expected ')' at end of grouping")
    IN  Parsed(expression(p))

\* Parser::unary
unary(p, can_assign) ==
    LET op_type == prev(p).ty
        Parsed(p1) ==
            IF p1.res # "ok" THEN p1
            ELSE CASE op_type = "Minus" -> Ok(Emit1(p1, OpcodeType.Negate))
                   [] op_type = "Bang"  -> Ok(Emit1(p1, OpcodeType.Not))
                   [] OTHER             -> Panic(p1)
    IN  Parsed(expression(p))

\* Parser::binary
binary(p, can_assign) ==
    LET op_type == prev(p).ty
        rule    == get_parse_rule(op_type)
        Parsed(p1) ==
            IF p1.res # "ok" THEN p1
            ELSE CASE op_type = "Plus"         -> Ok(Emit1(p1, OpcodeType.Add))
                   [] op_type = "Minus"        -> Ok(Emit1(p1, OpcodeType.Subtract))
                   [] op_type = "Star"         -> Ok(Emit1(p1, OpcodeType.Mult))
                   [] op_type = "ForwardSlash" -> Ok(Emit1(p1, OpcodeType.Div))
                   [] op_type = "BangEqual"    ->
                          Ok(Emit2(p1, OpcodeType.Equal, OpcodeType.Not))
                   [] op_type = "EqualEqual"   -> Ok(Emit1(p1, OpcodeType.Equal))
                   [] op_type = "Gt"           -> Ok(Emit1(p1, OpcodeType.GreaterThan))
                   [] op_type = "Ge"           ->
                          Ok(Emit2(p1, OpcodeType.LessThan, OpcodeType.Not))
                   [] op_type = "Lt"           -> Ok(Emit1(p1, OpcodeType.LessThan))
                   [] op_type = "Le"           ->
                          Ok(Emit2(p1, OpcodeType.GreaterThan, OpcodeType.Not))
                   [] OTHER                    -> Panic(p1)
    IN  Parsed(parse_precedence(p, PrecedenceNext(rule.precedence)))

\* the dispatch `prefix(self, can_assign)` / `infix(self, can_assign)` of
\* Parser::parse_precedence through the fn pointer of the rule
CallParseFn(fn, p, can_assign) ==
    CASE fn = "grouping" -> grouping(p, can_assign)
      [] fn = "unary"    -> unary(p, can_assign)
      [] fn = "binary"   -> binary(p, can_assign)
      [] fn = "variable" -> variable(p, can_assign)
      [] fn = "string"   -> string(p, can_assign)
      [] fn = "number"   -> number(p, can_assign)
      [] fn = "literal"  -> literal(p, can_assign)

\* the `while precedence <= ...` loop of Parser::parse_precedence
parse_infix(p, precedence, can_assign) ==
    LET \* after `infix(self, can_assign)?` returned p2
        Parsed(p2) == IF p2.res # "ok" THEN p2
                      ELSE parse_infix(p2, precedence, can_assign)
        \* after `self.advance(1)` left p1
        Advanced(p1) ==
            IF get_parse_rule(prev(p1).ty).infix # "none"
            THEN Parsed(CallParseFn(get_parse_rule(prev(p1).ty).infix, p1, can_assign))
            ELSE Parsed(p1)
    IN  IF ~HasCurrent(p) THEN Panic(p)
        ELSE IF precedence <= get_parse_rule(current(p).ty).precedence
        THEN Advanced(advance(p, 1))
        ELSE Ok(p)

\* Parser::parse_precedence
parse_precedence(p, precedence) ==
    LET can_assign == precedence <= Precedence.Assignment
        \* after `prefix(self, can_assign)?` returned p1
        Parsed(p1) == IF p1.res # "ok" THEN p1
                      ELSE parse_infix(p1, precedence, can_assign)
        \* after `self.advance(1)` left p0
        Advanced(p0) ==
            IF ~HasPrev(p0) THEN Panic(p0)
            ELSE IF get_parse_rule(prev(p0).ty).prefix # "none"
            THEN Parsed(CallParseFn(get_parse_rule(prev(p0).ty).prefix, p0, can_assign))
            ELSE Parsed([p0 EXCEPT !.obs.noprefix = Append(@, p0.i - 1)])
    IN  Advanced(advance(p, 1))

\* Parser::expression
expression(p) ==
    parse_precedence(p, Precedence.Assignment)

\* Parser::expression_statement
expression_statement(p) ==
    LET Expected(p2) == IF p2.res # "ok" THEN p2
                        ELSE Ok(Emit1(p2, OpcodeType.Pop))
        Parsed(p1) ==
            IF p1.res # "ok" THEN p1
            ELSE Expected(expect(p1, "Semicolon",
                     "expression_statement :: Expected ';' at end of statement"))
    IN  Parsed(expression(p))

\* Parser::print_statement
print_statement(p) ==
    LET Expected(p2) == IF p2.res # "ok" THEN p2
                        ELSE Ok(Emit1(p2, OpcodeType.Print))
        Parsed(p1) ==
            IF p1.res # "ok" THEN p1
            ELSE Expected(expect(p1, "Semicolon",
                     "print_statement :: Expected ';' at end of statement"))
    IN  Parsed(expression(p))

\* Parser::let_declaration
let_declaration(p) ==
    LET \* after define_variable left p4, p3 being the parser before it
        Defined(p3, p4, name) ==
            Ok(IF Len(p4.bytecode.instructions) = Len(p3.bytecode.instructions)
               THEN p4
               ELSE [p4 EXCEPT !.obs.globalOps = Append(@,
                        [at |-> Len(p3.bytecode.instructions), name |-> name])])
        \* after `self.expect(Semicolon, ..)?` returned p3
        Expected(p3, global, name) ==
            IF p3.res # "ok" THEN p3
            ELSE Defined(p3, define_variable(p3, global), name)
        \* after the initializer, or Nil, was compiled and left p2
        Initialized(p2, global, name) ==
            IF p2.res # "ok" THEN p2
            ELSE Expected(expect(p2, "Semicolon",
                              "let_declaration :: Expected ';' after let declaration"),
                          global, name)
        \* after `self.parse_variable(..)?` returned p1
        Named(p1) ==
            IF p1.res # "ok" THEN p1
            ELSE IF ~HasCurrent(p1) THEN Panic(p1)
            ELSE IF current(p1).ty = "Equal"
            THEN Initialized(expression(advance(p1, 1)), p1.ret, prev(p1).lexeme)
            ELSE Initialized(Ok(Emit1(p1, OpcodeType.Nil)), p1.ret, prev(p1).lexeme)
    IN  Named(parse_variable(p))

\* the condition of the `while` of Parser::block, where current() returns
block_while(p) ==
    current(p).ty # "RightBrace" /\ current(p).ty # "Eof"

\* one pass of that loop: p itself once the loop has been left, by its
\* condition or by the `?` on a declaration
block_pass(p) ==
    IF p.res # "ok" THEN p
    ELSE IF ~HasCurrent(p) THEN Panic(p)
    ELSE IF block_while(p) THEN declaration(p)
    ELSE p

\* 2^k passes of that loop, one after the other, or those up to the one that
\* leaves it
block_passes(p, k) ==
    LET Half(q) == IF q.res # "ok" \/ (HasCurrent(q) /\ ~block_while(q)) THEN q
                   ELSE block_passes(q, k - 1)
    IN  IF k = 0 THEN block_pass(p)
        ELSE Half(block_passes(p, k - 1))

\* the passes of that loop up to the one that leaves it, 2^k at a time
block_from(p, k) ==
    LET Passed(q) == IF q.res # "ok" \/ (HasCurrent(q) /\ ~block_while(q)) THEN q
                     ELSE block_from(q, k + 1)
    IN  Passed(block_passes(p, k))

\* Parser::block
block(p) ==
    LET Left(q) == IF q.res # "ok" THEN q
                   ELSE expect(q, "RightBrace", "Expected '}' after block statement")
    IN  Left(block_from(p, 0))

\* Parser::statement
statement(p) ==
    LET from == Len(p.bytecode.instructions)
        Ended(p2) ==
            IF p2.res # "ok" THEN p2
            ELSE Ok([p2 EXCEPT !.obs.blocks = Append(@,
                        [from |-> from, to |-> Len(p2.bytecode.instructions)])])
        \* after `self.block()?` returned p1
        Closed(p1) == IF p1.res # "ok" THEN p1 ELSE Ended(end_scope(p1))
    IN  IF ~HasCurrent(p) THEN Panic(p)
        ELSE CASE current(p).ty = "Print" -> print_statement(advance(p, 1))
               [] current(p).ty = "LeftBrace" ->
                      Closed(block(begin_scope(advance(p, 1))))
               [] OTHER -> expression_statement(p)

\* Parser::declaration
declaration(p) ==
    LET kind == CASE current(p).ty = "Let" ->
                         IF p.compiler.scope_depth > 0 THEN "let local"
                         ELSE "let global"
                  [] current(p).ty = "Print"     -> "print"
                  [] current(p).ty = "LeftBrace" -> "block"
                  [] OTHER                       -> "expression"
        \* the declaration returns p1
        Seen(p1, failed) ==
            IF p1.res # "ok" THEN p1
            ELSE [p1 EXCEPT !.obs.marks = Append(@,
                     [kind |-> kind, failed |-> failed,
                      from |-> Len(p.bytecode.instructions),
                      at |-> Len(p1.bytecode.instructions),
                      nlocals |-> Len(p1.compiler.locals),
                      tok |-> p.i, until |-> p1.i,
                      depth |-> p.compiler.scope_depth,
                      depth1 |-> p1.compiler.scope_depth,
                      nlocals0 |-> Len(p.compiler.locals),
                      nconst0 |-> Len(p.bytecode.constants),
                      nconst |-> Len(p1.bytecode.constants),
                      top |-> IF Len(p1.compiler.locals) = 0
                              THEN Local(Token("Eof", "", Nil), 0)
                              ELSE p1.compiler.locals[Len(p1.compiler.locals)]])]
        \* synchronize, entered at cursor `from`, returns q
        Synced(q, from) ==
            IF q.res # "ok" THEN q
            ELSE [q EXCEPT !.obs.syncs = Append(@, [from |-> from, to |-> q.i])]
        \* the `match result`
        Matched(result) ==
            CASE result.res = "ok"    -> Seen(result, FALSE)
              [] result.res = "err"   ->
                     Seen(Synced(synchronize([result EXCEPT
                                                 !.out = Append(@, result.msg)]),
                                 result.i),
                          TRUE)
              [] result.res = "panic" -> result
    IN  IF ~HasCurrent(p) THEN Panic(p)
        ELSE IF current(p).ty = "Let"
        THEN Matched(let_declaration(advance(p, 1)))
        ELSE Matched(statement(p))

\* a loop of compile that is also left at a `}` (C35 tells it from
\* compile_loop_while)
compile_loop_while_to_brace(p) ==
    current(p).ty # "RightBrace" /\ current(p).ty # "Eof"

\* the condition `p.current().ty != TokenType::Eof` of the `while` of
\* Compiler::compile, where current() returns
compile_loop_while(p) ==
    current(p).ty # "Eof"

\* one pass of that loop: p itself once the loop has been left, by its
\* condition or by the `?` on a declaration
compile_loop_pass(p) ==
    IF p.res # "ok" THEN p
    ELSE IF ~HasCurrent(p) THEN Panic(p)
    ELSE IF compile_loop_while(p) THEN declaration(p)
    ELSE p

\* 2^k passes of that loop, one after the other, or those up to the one that
\* leaves it
RECURSIVE compile_loop_passes(_, _)
compile_loop_passes(p, k) ==
    LET Half(q) == IF q.res # "ok" \/ (HasCurrent(q) /\ ~compile_loop_while(q)) THEN q
                   ELSE compile_loop_passes(q, k - 1)
    IN  IF k = 0 THEN compile_loop_pass(p)
        ELSE Half(compile_loop_passes(p, k - 1))

\* the passes of that loop up to the one that leaves it, 2^k at a time
RECURSIVE compile_loop_from(_, _)
compile_loop_from(p, k) ==
    LET Passed(q) == IF q.res # "ok"
                        \/ (HasCurrent(q) /\ ~compile_loop_while(q)) THEN q
                     ELSE compile_loop_from(q, k + 1)
    IN  Passed(compile_loop_passes(p, k))

\* the `while` of Compiler::compile
compile_loop(p) ==
    compile_loop_from(p, 0)

\* Compiler::compile: the parser at the return; res "ok" is Ok(p.bytecode)
compile(tokens) ==
    LET Returned(p) == IF p.res # "ok" THEN p
                        ELSE Ok(Emit1(p, OpcodeType.Return))
    IN  Returned(compile_loop(ParserNew(tokens)))

(***************************************************************************)
(* vm.rs: struct VM { pc, chunk, stack, globals }.                         *)
(*                                                                         *)
(* A VM state m carries, beside the fields, m.status: "idle" before a run, *)
(* "running" inside the loop of VM::run, "ok" / "err" once run returned    *)
(* Ok(()) / Err, "panic" once it panicked; and m.stdout, the values        *)
(* handed to println!.  Values::clone is the identity on the model's       *)
(* values.                                                                 *)
(***************************************************************************)
\* VM::STACK_SIZE, the capacity VM::new reserves for the operand stack
STACK_SIZE == 256

\* VM::new
VMNew ==
    [pc |-> 0, chunk |-> ChunkNew, stack |-> << >>,
     globals |-> [n \in {} |-> Nil], status |-> "idle", stdout |-> << >>]

\* a reset that empties the globals too (C16 tells it from reset)
reset_clearing_globals(m, chunk) ==
    [m EXCEPT !.pc = 0, !.chunk = chunk, !.stack = << >>,
              !.globals = [n \in {} |-> Nil]]

\* VM::reset
reset(m, chunk) ==
    [m EXCEPT !.pc = 0, !.chunk = chunk, !.stack = << >>]

\* an error that does not end the run (C18 tells it from VmErr)
VmErr_ignored(m) ==
    m

VmErr(m) ==
    [m EXCEPT !.status = "err"]

VmPanic(m) ==
    [m EXCEPT !.status = "panic"]

\* VM::push
push(m, value) ==
    [m EXCEPT !.stack = Append(@, value)]

\* the stack after a successful VM::pop (Vec::pop)
popped(m) ==
    [m EXCEPT !.stack = SubSeq(@, 1, Len(@) - 1)]

\* VM::stack_top, for a stack that is not empty
stack_top(m) ==
    m.stack[Len(m.stack)]

\* whether Chunk::opcode_at(pc) reads inside the instructions
HasWord(m) ==
    m.pc < Len(m.chunk.instructions)

\* VM::next_op: the word read, and the VM after it
WordAt(m) ==
    m.chunk.instructions[m.pc + 1]

next_op(m) ==
    [m EXCEPT !.pc = @ + 1]

\* whether Chunk::constant_at(index) reads inside the constants
HasConstant(m, index) ==
    index < Len(m.chunk.constants)

constant_at(m, index) ==
    m.chunk.constants[index + 1]

\* the binary_op! macro: `op` names the operator and the Value constructor
BinaryResult(op, a, b) ==
    CASE op = "Subtract"    -> Number(F64Sub(a, b))
      [] op = "Mult"        -> Number(F64Mul(a, b))
      [] op = "Div"         -> Number(F64Div(a, b))
      [] op = "GreaterThan" -> Boolean(F64Gt(a, b))
      [] op = "LessThan"    -> Boolean(F64Lt(a, b))

\* a binary_op! that computes `b $op a` (C31 tells it from binary_op)
binary_op_swapped(m, op) ==
    IF Len(m.stack) = 0 THEN VmErr(m)
    ELSE LET b  == stack_top(m)
             m1 == popped(m)
         IN  IF b.k # "Number" THEN VmErr(m1)
             ELSE IF Len(m1.stack) = 0 THEN VmErr(m1)
             ELSE LET a  == stack_top(m1)
                      m2 == popped(m1)
                  IN  IF a.k # "Number" THEN VmErr(m2)
                      ELSE push(m2, BinaryResult(op, b.f, a.f))

binary_op(m, op) ==
    IF Len(m.stack) = 0 THEN VmErr(m)
    ELSE LET b  == stack_top(m)
             m1 == popped(m)
         IN  IF b.k # "Number" THEN VmErr(m1)
             ELSE IF Len(m1.stack) = 0 THEN VmErr(m1)
             ELSE LET a  == stack_top(m1)
                      m2 == popped(m1)
                  IN  IF a.k # "Number" THEN VmErr(m2)
                      ELSE push(m2, BinaryResult(op, a.f, b.f))

\* OpcodeType::Negate
ExecNegate(m) ==
    IF Len(m.stack) = 0 THEN VmPanic(m)
    ELSE LET val == stack_top(m)
         IN  IF val.k = "Number"
             THEN [m EXCEPT !.stack[Len(m.stack)] = Number(F64Neg(val.f))]
             ELSE VmErr(m)

\* OpcodeType::Not
ExecNot(m) ==
    IF Len(m.stack) = 0 THEN VmPanic(m)
    ELSE [m EXCEPT !.stack[Len(m.stack)] = Boolean(is_falsey(stack_top(m)))]

\* an Add that concatenates the second-pushed operand before the first (C25
\* tells it from ExecAdd)
ExecAdd_swapped(m) ==
    IF Len(m.stack) = 0 THEN VmErr(m)
    ELSE LET b  == stack_top(m)
             m1 == popped(m)
         IN  IF Len(m1.stack) = 0 THEN VmErr(m1)
             ELSE LET a  == stack_top(m1)
                      m2 == popped(m1)
                  IN  CASE a.k = "Number" ->
                               IF b.k = "Number"
                               THEN push(m2, Number(F64Add(a.f, b.f)))
                               ELSE VmErr(m2)
                        [] a.k = "String" ->
                               IF b.k = "String"
                               THEN push(m2, ObjString(b.s \o a.s))
                               ELSE VmErr(m2)
                        [] OTHER -> VmErr(m2)

\* OpcodeType::Add
ExecAdd(m) ==
    IF Len(m.stack) = 0 THEN VmErr(m)
    ELSE LET b  == stack_top(m)
             m1 == popped(m)
         IN  IF Len(m1.stack) = 0 THEN VmErr(m1)
             ELSE LET a  == stack_top(m1)
                      m2 == popped(m1)
                  IN  CASE a.k = "Number" ->
                               IF b.k = "Number"
                               THEN push(m2, Number(F64Add(a.f, b.f)))
                               ELSE VmErr(m2)
                        [] a.k = "String" ->
                               IF b.k = "String"
                               THEN push(m2, ObjString(a.s \o b.s))
                               ELSE VmErr(m2)
                        [] OTHER -> VmErr(m2)

\* OpcodeType::Equal
ExecEqual(m) ==
    IF Len(m.stack) = 0 THEN VmErr(m)
    ELSE LET b  == stack_top(m)
             m1 == popped(m)
         IN  IF Len(m1.stack) = 0 THEN VmErr(m1)
             ELSE LET a  == stack_top(m1)
                      m2 == popped(m1)
                  IN  push(m2, Boolean(ValueEq(a, b)))

\* OpcodeType::Print (a name of the module cannot be that word)
ExecPrintOp(m) ==
    IF Len(m.stack) = 0 THEN VmErr(m)
    ELSE [popped(m) EXCEPT !.stdout = Append(@, stack_top(m))]

\* OpcodeType::Pop
ExecPop(m) ==
    IF Len(m.stack) = 0 THEN VmErr(m) ELSE popped(m)

\* OpcodeType::Constant
ExecConstant(m) ==
    IF ~HasWord(m) THEN VmPanic(m)
    ELSE LET cindex == WordAt(m)
             m1     == next_op(m)
         IN  IF ~HasConstant(m1, cindex) THEN VmPanic(m1)
             ELSE push(m1, constant_at(m1, cindex))

\* the head shared by the three global opcodes: the operand word, the
\* constant, as_string()?.  The VM after it; m.status tells how it went
GlobalName(m) ==
    IF ~HasWord(m) THEN VmPanic(m)
    ELSE LET index == WordAt(m)
             m1    == next_op(m)
         IN  IF ~HasConstant(m1, index) THEN VmPanic(m1)
             ELSE IF constant_at(m1, index).k # "String" THEN VmErr(m1)
             ELSE m1

\* OpcodeType::DefineGlobal
ExecDefineGlobal(m) ==
    LET m1 == GlobalName(m)
    IN  IF m1.status # "running" THEN m1
        ELSE LET name == constant_at(m1, WordAt(m)).s
             IN  IF Len(m1.stack) = 0 THEN VmErr(m1)
                 ELSE [popped(m1) EXCEPT
                          !.globals = (name :> stack_top(m1)) @@ @]

\* a GetGlobal that reads an undefined name as Nil (C26 tells it from
\* ExecGetGlobal)
ExecGetGlobal_lenient(m) ==
    LET m1 == GlobalName(m)
    IN  IF m1.status # "running" THEN m1
        ELSE LET name == constant_at(m1, WordAt(m)).s
             IN  IF name \in DOMAIN m1.globals
                 THEN push(m1, m1.globals[name])
                 ELSE push(m1, Nil)

\* OpcodeType::GetGlobal
ExecGetGlobal(m) ==
    LET m1 == GlobalName(m)
    IN  IF m1.status # "running" THEN m1
        ELSE LET name == constant_at(m1, WordAt(m)).s
             IN  IF name \in DOMAIN m1.globals
                 THEN push(m1, m1.globals[name])
                 ELSE VmErr(m1)

\* a SetGlobal that defines the name when it is missing (C15 tells it from
\* ExecSetGlobal)
ExecSetGlobal_defining(m) ==
    LET m1 == GlobalName(m)
    IN  IF m1.status # "running" THEN m1
        ELSE IF Len(m1.stack) = 0 THEN VmPanic(m1)
        ELSE [m1 EXCEPT !.globals =
                 (constant_at(m1, WordAt(m)).s :> stack_top(m1)) @@ @]

\* OpcodeType::SetGlobal
ExecSetGlobal(m) ==
    LET m1 == GlobalName(m)
    IN  IF m1.status # "running" THEN m1
        ELSE LET name == constant_at(m1, WordAt(m)).s
             IN  IF name \in DOMAIN m1.globals
                 THEN IF Len(m1.stack) = 0 THEN VmPanic(m1)
                      ELSE [m1 EXCEPT !.globals = (name :> stack_top(m1)) @@ @]
                 ELSE VmErr(m1)

\* OpcodeType::GetLocal
ExecGetLocal(m) ==
    IF ~HasWord(m) THEN VmPanic(m)
    ELSE LET slot == WordAt(m)
             m1   == next_op(m)
         IN  IF slot >= Len(m1.stack) THEN VmPanic(m1)
             ELSE push(m1, m1.stack[slot + 1])

\* a SetLocal that pops the value it stored (C14 tells it from ExecSetLocal)
ExecSetLocal_popping(m) ==
    IF ~HasWord(m) THEN VmPanic(m)
    ELSE LET slot == WordAt(m)
             m1   == next_op(m)
         IN  IF Len(m1.stack) = 0 \/ slot >= Len(m1.stack) THEN VmPanic(m1)
             ELSE popped([m1 EXCEPT !.stack[slot + 1] = stack_top(m1)])

\* OpcodeType::SetLocal
ExecSetLocal(m) ==
    IF ~HasWord(m) THEN VmPanic(m)
    ELSE LET slot == WordAt(m)
             m1   == next_op(m)
         IN  IF Len(m1.stack) = 0 \/ slot >= Len(m1.stack) THEN VmPanic(m1)
             ELSE [m1 EXCEPT !.stack[slot + 1] = stack_top(m1)]

\* a run loop that goes on after Return (C33 tells it from run_iteration)
run_iteration_past_return(m) ==
    IF ~HasWord(m) THEN [m EXCEPT !.status = "ok"]
    ELSE LET op == OpcodeTy(WordAt(m))
             m1 == next_op(m)
         IN  CASE op = "Return"       -> m1
               [] op = "Constant"     -> ExecConstant(m1)
               [] op = "Negate"       -> ExecNegate(m1)
               [] op = "Add"          -> ExecAdd(m1)
               [] op \in {"Subtract", "Mult", "Div", "GreaterThan", "LessThan"}
                                      -> binary_op(m1, op)
               [] op = "Nil"          -> push(m1, Nil)
               [] op = "False"        -> push(m1, Boolean(FALSE))
               [] op = "True"         -> push(m1, Boolean(TRUE))
               [] op = "Not"          -> ExecNot(m1)
               [] op = "Equal"        -> ExecEqual(m1)
               [] op = "Print"        -> ExecPrintOp(m1)
               [] op = "Pop"          -> ExecPop(m1)
               [] op = "DefineGlobal" -> ExecDefineGlobal(m1)
               [] op = "GetGlobal"    -> ExecGetGlobal(m1)
               [] op = "SetGlobal"    -> ExecSetGlobal(m1)
               [] op = "GetLocal"     -> ExecGetLocal(m1)
               [] op = "SetLocal"     -> ExecSetLocal(m1)
               [] op = "Unknown"      -> VmErr(m1)

\* one iteration of the `while self.pc < self.chunk.instructions_len()`
\* loop of VM::run, the test of the loop included
run_iteration(m) ==
    IF ~HasWord(m) THEN [m EXCEPT !.status = "ok"]
    ELSE LET op == OpcodeTy(WordAt(m))
             m1 == next_op(m)
         IN  CASE op = "Return"       -> [m1 EXCEPT !.status = "ok"]
               [] op = "Constant"     -> ExecConstant(m1)
               [] op = "Negate"       -> ExecNegate(m1)
               [] op = "Add"          -> ExecAdd(m1)
               [] op \in {"Subtract", "Mult", "Div", "GreaterThan", "LessThan"}
                                      -> binary_op(m1, op)
               [] op = "Nil"          -> push(m1, Nil)
               [] op = "False"        -> push(m1, Boolean(FALSE))
               [] op = "True"         -> push(m1, Boolean(TRUE))
               [] op = "Not"          -> ExecNot(m1)
               [] op = "Equal"        -> ExecEqual(m1)
               [] op = "Print"        -> ExecPrintOp(m1)
               [] op = "Pop"          -> ExecPop(m1)
               [] op = "DefineGlobal" -> ExecDefineGlobal(m1)
               [] op = "GetGlobal"    -> ExecGetGlobal(m1)
               [] op = "SetGlobal"    -> ExecSetGlobal(m1)
               [] op = "GetLocal"     -> ExecGetLocal(m1)
               [] op = "SetLocal"     -> ExecSetLocal(m1)
               [] op = "Unknown"      -> VmErr(m1)

(***************************************************************************)
(* lex.rs: struct Lexer { source, source_str, cursor, tokens, errors } and *)
(* struct Cursor { start, i, lineno }.                                     *)
(*                                                                         *)
(* A source text is a sequence of characters, each a one-character string; *)
(* source and source_str are the one field source, and the byte at index   *)
(* n of the code is source[n + 1].  A lexer state lx carries, beside the   *)
(* fields, lx.res: "ok", or "panic" once an index, a slice or an assert!   *)
(* has failed; lx.ret, the char or TokenType the last method returned;     *)
(* lx.matched, the bool match_next returned; and lx.lit, the               *)
(* Option<ObjectVal> the last select_* returned.                           *)
(***************************************************************************)
\* Option<ObjectVal>: None and Some(v)
None ==
    [some |-> FALSE, val |-> Nil]

Some(v) ==
    [some |-> TRUE, val |-> v]

\* sys.rs is_digit
is_digit(c) ==
    c \in {"0", "1", "2", "3", "4", "5", "6", "7", "8", "9"}

\* sys.rs is_alpha
is_alpha(c) ==
    c \in {"a", "b", "c", "d", "e", "f", "g", "h", "i", "j", "k", "l", "m",
           "n", "o", "p", "q", "r", "s", "t", "u", "v", "w", "x", "y", "z",
           "A", "B", "C", "D", "E", "F", "G", "H", "I", "J", "K", "L", "M",
           "N", "O", "P", "Q", "R", "S", "T", "U", "V", "W", "X", "Y", "Z",
           "_"}

\* sys.rs is_alpha_numeric
is_alpha_numeric(c) ==
    is_alpha(c) \/ is_digit(c)

\* char::is_whitespace, on the characters of the source alphabet
is_whitespace(c) ==
    c \in {" ", "\t", "\n", "\r"}

\* the '\0' that Lexer::next_token returns at the end of the source
NUL ==
    "NUL"

\* lex.rs KEYWORDS
KEYWORDS ==
    [struct |-> "Struct", trait |-> "Trait", impl |-> "Impl", if |-> "If",
     else |-> "Else", true |-> "True", false |-> "False", fn |-> "Fn",
     nil |-> "Nil", and |-> "And", or |-> "Or", return |-> "Return",
     super |-> "Super", self |-> "ThisSelf", let |-> "Let", const |-> "Const",
     loop |-> "Loop", for |-> "For", while |-> "While", break |-> "Break",
     switch |-> "Switch", continue |-> "Continue"]

\* Cursor::new
CursorNew ==
    [start |-> 0, i |-> 0, lineno |-> 1]

\* Lexer::new
LexerNew(source_str) ==
    [source |-> source_str, cursor |-> CursorNew, tokens |-> << >>,
     errors |-> << >>, res |-> "ok", ret |-> NUL, matched |-> FALSE,
     lit |-> None]

\* a panic of the lexer: an index or a slice out of range, a failed assert!
LexPanic(lx) ==
    [lx EXCEPT !.res = "panic"]

\* the slice source[from..to] of the code as a string; the caller has
\* checked from <= to <= len
RECURSIVE SourceSlice(_, _, _)
SourceSlice(source, from, to) ==
    IF from >= to THEN ""
    ELSE source[from + 1] \o SourceSlice(source, from + 1, to)

\* whether the slice source[from..to] is in range
SliceInRange(source, from, to) ==
    from <= to /\ to <= Len(source)

\* Lexer::advance_cursor
advance_cursor(lx, n) ==
    [lx EXCEPT !.cursor.i = @ + n]

\* Lexer::is_cursor_at_end
is_cursor_at_end(lx) ==
    lx.cursor.i >= Len(lx.source)

\* Lexer::peek, where `self.source[self.cursor.i]` is in range
peek(lx) ==
    lx.source[lx.cursor.i + 1]

\* Lexer::match_next; lx.matched is the bool returned
match_next(lx, c) ==
    IF is_cursor_at_end(lx) \/ peek(lx) # c
    THEN [lx EXCEPT !.matched = FALSE]
    ELSE [advance_cursor(lx, 1) EXCEPT !.matched = TRUE]

\* Lexer::next_token; lx.ret is the char returned
RECURSIVE next_token(_)
next_token(lx) ==
    IF is_cursor_at_end(lx) THEN [lx EXCEPT !.ret = NUL]
    ELSE IF is_whitespace(peek(lx))
    THEN next_token(advance_cursor(
             [lx EXCEPT !.cursor.lineno = IF peek(lx) = "\n" THEN @ + 1 ELSE @],
             1))
    ELSE [advance_cursor([lx EXCEPT !.cursor.start = lx.cursor.i], 1)
             EXCEPT !.ret = peek(lx)]

\* the loop `while is_digit(self.peek()) { self.advance_cursor(1) }`; peek
\* indexes the source without a check
RECURSIVE select_digits(_)
select_digits(lx) ==
    IF is_cursor_at_end(lx) THEN LexPanic(lx)
    ELSE IF is_digit(peek(lx)) THEN select_digits(advance_cursor(lx, 1))
    ELSE lx

\* str::parse::<f64> on a text of digits with at most one '.' between
\* them: the value of the digits before position `to`, from position `from`
RECURSIVE DigitsValue(_, _, _)
DigitsValue(source, from, to) ==
    IF from >= to THEN 0
    ELSE 10 * DigitsValue(source, from, to - 1)
         + (CHOOSE d \in 0..9 :
                <<"0", "1", "2", "3", "4", "5", "6", "7", "8", "9">>[d + 1]
                    = source[to])

RECURSIVE Pow10(_)
Pow10(n) ==
    IF n = 0 THEN 1 ELSE 10 * Pow10(n - 1)

\* the f64 of source[from..to], `dot` being the index of its '.', or `to`
\* when it has none
ParseF64(source, from, dot, to) ==
    IF dot >= to THEN F64Int(DigitsValue(source, from, to))
    ELSE F64Fin(DigitsValue(source, from, dot) * Pow10(to - dot - 1)
                    + DigitsValue(source, dot + 1, to),
                Pow10(to - dot - 1), FALSE)

\* Lexer::select_number; lx.lit is the Option returned.  The text selected
\* is digits, or digits '.' digits, which parse::<f64> accepts
select_number(lx) ==
    LET Parsed(l2, dot) ==
            IF l2.res # "ok" THEN l2
            ELSE [l2 EXCEPT !.lit = Some(Number(ParseF64(l2.source,
                                      l2.cursor.start, dot, l2.cursor.i)))]
        \* `self.peek() == '.' && is_digit(self.peekn(1))`; peekn asserts
        \* that its index is in range
        Whole(l1) ==
            IF l1.res # "ok" THEN l1
            ELSE IF peek(l1) # "." THEN Parsed(l1, l1.cursor.i)
            ELSE IF l1.cursor.i + 1 >= Len(l1.source) THEN LexPanic(l1)
            ELSE IF is_digit(l1.source[l1.cursor.i + 2])
            THEN Parsed(select_digits(advance_cursor(l1, 1)), l1.cursor.i)
            ELSE Parsed(l1, l1.cursor.i)
    IN  Whole(select_digits(lx))

\* the loop `while is_alpha_numeric(self.peek()) { self.advance_cursor(1) }`
RECURSIVE select_alpha_numerics(_)
select_alpha_numerics(lx) ==
    IF is_cursor_at_end(lx) THEN LexPanic(lx)
    ELSE IF is_alpha_numeric(peek(lx))
    THEN select_alpha_numerics(advance_cursor(lx, 1))
    ELSE lx

\* Lexer::select_ident; lx.ret is the TokenType returned
select_ident(lx) ==
    LET Named(l1, value) ==
            [l1 EXCEPT !.ret = IF value \in DOMAIN KEYWORDS THEN KEYWORDS[value]
                                ELSE "Ident"]
        Selected(l1) ==
            IF l1.res # "ok" THEN l1
            ELSE Named(l1, SourceSlice(l1.source, l1.cursor.start, l1.cursor.i))
    IN  Selected(select_alpha_numerics(lx))

\* the loop of Lexer::select_string
RECURSIVE select_string_loop(_)
select_string_loop(lx) ==
    IF ~is_cursor_at_end(lx) /\ peek(lx) # "\""
    THEN select_string_loop(advance_cursor(
             [lx EXCEPT !.cursor.lineno = IF peek(lx) = "\n" THEN @ + 1 ELSE @],
             1))
    ELSE lx

\* Lexer::select_string; lx.lit is the Option returned
select_string(lx) ==
    LET Closed(l2) ==
            [l2 EXCEPT !.lit = Some(ObjString(SourceSlice(l2.source,
                                  l2.cursor.start + 1, l2.cursor.i - 1)))]
        Looped(l1) ==
            IF is_cursor_at_end(l1)
            THEN [l1 EXCEPT !.errors = Append(@, "Unterminated string"),
                            !.lit = None]
            ELSE Closed(advance_cursor(l1, 1))
    IN  Looped(select_string_loop(lx))

\* the loop that skips a comment up to the end of its line
RECURSIVE skip_comment(_)
skip_comment(lx) ==
    IF ~is_cursor_at_end(lx) /\ peek(lx) # "\n"
    THEN skip_comment(advance_cursor(lx, 1))
    ELSE lx

\* Cursor::to_token; a slice whose start is past its end panics
to_token(lx, ty, lit) ==
    LET from == IF ty = "String" THEN lx.cursor.start + 1 ELSE lx.cursor.start
        to   == IF ty = "String" THEN lx.cursor.i - 1 ELSE lx.cursor.i
    IN  IF ~SliceInRange(lx.source, from, to) THEN LexPanic(lx)
        ELSE [lx EXCEPT !.tokens = Append(@,
                 [ty |-> ty,
                  literal |-> IF lit.some THEN lit.val ELSE Nil,
                  line |-> lx.cursor.lineno,
                  lexeme |-> SourceSlice(lx.source, from, to)])]

\* the `match c` of Lexer::scan_tokens and the push of its token: c is the
\* char next_token returned, lx the lexer after it
scan_token(lx, c) ==
    LET \* the token `two` when match_next returned true, else `one`
        Either(l1, two, one) ==
            to_token(l1, IF l1.matched THEN two ELSE one, None)
        \* '=' : "==", "=>" or "="
        Equals(l1) ==
            IF l1.matched THEN to_token(l1, "EqualEqual", None)
            ELSE Either(match_next(l1, ">"), "FatArrow", "Equal")
        Slash(l1) ==
            IF l1.matched THEN to_token(skip_comment(l1), "Comment", None)
            ELSE to_token(l1, "ForwardSlash", None)
        Number_(l1) ==
            IF l1.res # "ok" THEN l1 ELSE to_token(l1, "Number", l1.lit)
        Ident_(l1) ==
            IF l1.res # "ok" THEN l1 ELSE to_token(l1, l1.ret, None)
        String_(l1) ==
            to_token(l1, "String", l1.lit)
    IN  CASE c = "{" -> to_token(lx, "LeftBrace", None)
          [] c = "}" -> to_token(lx, "RightBrace", None)
          [] c = "(" -> to_token(lx, "LeftParen", None)
          [] c = ")" -> to_token(lx, "RightParen", None)
          [] c = "," -> to_token(lx, "Comma", None)
          [] c = "." -> to_token(lx, "Dot", None)
          [] c = "-" -> to_token(lx, "Minus", None)
          [] c = "+" -> to_token(lx, "Plus", None)
          [] c = ";" -> to_token(lx, "Semicolon", None)
          [] c = ":" -> Either(match_next(lx, ":"), "DoubleColon", "Colon")
          [] c = "*" -> to_token(lx, "Star", None)
          [] c = "!" -> Either(match_next(lx, "="), "BangEqual", "Bang")
          [] c = "=" -> Equals(match_next(lx, "="))
          [] c = "<" -> Either(match_next(lx, "="), "Le", "Lt")
          [] c = ">" -> Either(match_next(lx, "="), "Ge", "Gt")
          [] c = "/" -> Slash(match_next(lx, "/"))
          [] c = "\"" -> String_(select_string(lx))
          [] OTHER ->
               IF is_digit(c) THEN Number_(select_number(lx))
               ELSE IF is_alpha(c) THEN Ident_(select_ident(lx))
               ELSE to_token([lx EXCEPT !.errors =
                                  Append(@, "Unexpected Character")],
                             "Unknown", None)

\* the `while !lex.is_cursor_at_end()` of Lexer::scan_tokens
RECURSIVE scan_tokens_loop(_)
scan_tokens_loop(lx) ==
    LET Pushed(l2) == IF l2.res # "ok" THEN l2 ELSE scan_tokens_loop(l2)
        Next_(l1) == Pushed(scan_token(l1, l1.ret))
    IN  IF is_cursor_at_end(lx) THEN lx
        ELSE Next_(next_token(lx))

\* Lexer::scan_tokens: the lexer at the return; LexResult is its tokens and
\* errors
scan_tokens(source_str) ==
    scan_tokens_loop(LexerNew(source_str))

\* str::trim_start and str::trim_end, on the characters of the source
\* alphabet
RECURSIVE trim_start(_)
trim_start(src) ==
    IF src # << >> /\ is_whitespace(Head(src)) THEN trim_start(Tail(src))
    ELSE src

RECURSIVE trim_end(_)
trim_end(src) ==
    IF src # << >> /\ is_whitespace(src[Len(src)])
    THEN trim_end(SubSeq(src, 1, Len(src) - 1))
    ELSE src

\* str::trim
trim(src) ==
    trim_end(trim_start(src))

\* the value::Token compile reads in place of a lex::Token: the fields of
\* the same names, the literal being the variant of the same name
TokenOfLex(t) ==
    Token(t.ty, t.lexeme, t.literal)

\* a compile_source that hands the tokens to the parser whatever the
\* lexer reported (C23 tells it from compile_source)
compile_source_ignoring_errors(src) ==
    LET Lexed(lx) ==
            IF lx.res # "ok"
            THEN [lex |-> lx, invoked |-> FALSE, res |-> "panic",
                  p |-> ParserNew(<< >>)]
            ELSE LET Compiled(q) ==
                         [lex |-> lx, invoked |-> TRUE, res |-> q.res, p |-> q]
                 IN  Compiled(compile([n \in 1..Len(lx.tokens) |->
                                          TokenOfLex(lx.tokens[n])]))
    IN  Lexed(scan_tokens(trim(src)))

\* Compiler::compile_source: r.lex is the lexer at the return of
\* scan_tokens, r.invoked tells whether Compiler::compile was called, r.p is
\* its parser at the return (a parser never started otherwise), r.res is
\* "ok" for Ok(chunk), "err" for the bail!, "panic"
compile_source(src) ==
    LET Lexed(lx) ==
            IF lx.res # "ok"
            THEN [lex |-> lx, invoked |-> FALSE, res |-> "panic",
                  p |-> ParserNew(<< >>)]
            ELSE IF Len(lx.errors) = 0
            THEN LET Compiled(q) ==
                         [lex |-> lx, invoked |-> TRUE, res |-> q.res, p |-> q]
                 IN  Compiled(compile([n \in 1..Len(lx.tokens) |->
                                          TokenOfLex(lx.tokens[n])]))
            ELSE [lex |-> lx, invoked |-> FALSE, res |-> "err",
                  p |-> ParserNew(<< >>)]
    IN  Lexed(scan_tokens(trim(src)))

(***************************************************************************)
(* The inputs: token streams as the lexer hands them to                    *)
(* Compiler::compile, each ended by one Eof token.                         *)
(***************************************************************************)
\* the source text of the tokens that have a fixed one
TokenText ==
    [Let |-> "let", Equal |-> "=", Semicolon |-> ";", LeftBrace |-> "{",
     RightBrace |-> "}", LeftParen |-> "(", RightParen |-> ")", Minus |-> "-",
     Plus |-> "+", Star |-> "*", ForwardSlash |-> "/", Bang |-> "!",
     BangEqual |-> "!=", EqualEqual |-> "==", Gt |-> ">", Ge |-> ">=",
     Lt |-> "<", Le |-> "<=", True |-> "true", False |-> "false",
     Nil |-> "nil", If |-> "if", Comment |-> "//", Eof |-> ""]

\* a token without literal
Tk(ty) ==
    Token(ty, TokenText[ty], Nil)

\* the keyword token of `print`
TkPrint ==
    Token("Print", "print", Nil)

Ident(name) ==
    Token("Ident", name, Nil)

\* a Number token of an integer literal 0..9
Num(n) ==
    Token("Number", <<"0", "1", "2", "3", "4", "5", "6", "7", "8", "9">>[n + 1],
          Number(F64Int(n)))

Str(s) ==
    Token("String", s, ObjString(s))

\* the statements and pieces of statements programs are assembled from
Fragments ==
    { << Tk("LeftBrace") >>,
      << Tk("RightBrace") >>,
      << Tk("Let"), Ident("a"), Tk("Equal"), Num(1), Tk("Semicolon") >>,
      << Tk("Let"), Ident("a"), Tk("Equal"), Ident("a"), Tk("Semicolon") >>,
      << Tk("Let"), Ident("b"), Tk("Semicolon") >>,
      << Tk("LeftBrace"), Tk("Let"), Ident("b"), Tk("Semicolon") >>,
      << TkPrint, Ident("a"), Tk("Semicolon") >>,
      << Ident("a"), Tk("Equal"), Num(2), Tk("Semicolon") >>,
      << Tk("Semicolon"), Tk("Semicolon") >>,
      << Num(1), Num(2), Tk("Semicolon") >> }

RECURSIVE Flatten(_)
Flatten(ss) ==
    IF ss = << >> THEN << >> ELSE Head(ss) \o Flatten(Tail(ss))

\* the programs of at most MaxStmts fragments
Programs ==
    { Flatten(fs) \o << Tk("Eof") >> :
        fs \in UNION { [1..n -> Fragments] : n \in 0..MaxStmts } }

\* the tokens of the exhaustively enumerated streams
RawAlphabet ==
    { Tk("Let"), Ident("a"), Tk("Equal"), Tk("Semicolon"), Num(1), TkPrint,
      Tk("LeftBrace"), Tk("RightBrace"), Tk("Plus"), Tk("Minus"),
      Tk("LeftParen"), Tk("RightParen") }

\* every stream of at most MaxRaw of them
RawStreams ==
    { ts \o << Tk("Eof") >> :
        ts \in UNION { [1..n -> RawAlphabet] : n \in 0..MaxRaw } }

\* the operands of the expression programs
Numerals ==
    { Num(n) : n \in 0..MaxNum }

Atoms ==
    Numerals \cup { Ident("a"), Ident("b"), Str("s"), Tk("True"), Tk("Nil") }

UnaryTypes ==
    { "Minus", "Bang" }

BinaryTypes ==
    { "Plus", "Minus", "Star", "ForwardSlash", "BangEqual", "EqualEqual",
      "Gt", "Ge", "Lt", "Le" }

\* X b Y c Z for binary operators b and c, the operands being numerals or
\* the identifiers a, b, c
Chains ==
    { << x, Tk(b), y, Tk(c), z >> :
        x \in Numerals, y \in Numerals, z \in Numerals,
        b \in BinaryTypes, c \in BinaryTypes }
    \cup { << Ident("a"), Tk(b), Ident("b"), Tk(c), Ident("c") >> :
              b \in BinaryTypes, c \in BinaryTypes }

\* X, u X, X b Y, u X b Y, X b Y = Z, N / N b N / N and the chains, for
\* operands X, Y, Z, numerals N, unary operators u and binary operators b
Expressions ==
    { << x >> : x \in Atoms }
    \cup { << Tk(u), x >> : u \in UnaryTypes, x \in Atoms }
    \cup { << x, Tk(b), y >> : x \in Atoms, b \in BinaryTypes, y \in Atoms }
    \cup { << Tk(u), x, Tk(b), y >> :
             u \in UnaryTypes, x \in Atoms, b \in BinaryTypes, y \in Atoms }
    \cup { << x, Tk(b), y, Tk("Equal"), z >> :
             x \in {Ident("a")}, b \in BinaryTypes, y \in Atoms, z \in Numerals }
    \cup { << k, Tk("ForwardSlash"), l, Tk(b), m, Tk("ForwardSlash"), n >> :
             k \in Numerals, l \in Numerals, m \in Numerals, n \in Numerals,
             b \in {"EqualEqual", "Plus", "Lt"} }
    \cup Chains

\* `print E ;` and `E ;` for each of them
ExprPrograms ==
    { << TkPrint >> \o e \o << Tk("Semicolon"), Tk("Eof") >> : e \in Expressions }
    \cup { e \o << Tk("Semicolon"), Tk("Eof") >> : e \in Expressions }

\* `let n = v ;` and `print m ;`
LetOf(n, v) ==
    << Tk("Let"), Ident(n), Tk("Equal"), v, Tk("Semicolon") >>

PrintOf(m) ==
    << TkPrint, Ident(m), Tk("Semicolon") >>

\* `let a = 0; { let n = 1; print m; } print m;`, at the top level or, when
\* local, inside a block of its own
Shadow(local, n, m) ==
    (IF local THEN << Tk("LeftBrace") >> ELSE << >>)
    \o LetOf("a", Num(0))
    \o << Tk("LeftBrace") >> \o LetOf(n, Num(1)) \o PrintOf(m)
    \o << Tk("RightBrace") >> \o PrintOf(m)
    \o (IF local THEN << Tk("RightBrace") >> ELSE << >>)
    \o << Tk("Eof") >>

\* `{ let a = 0; { let a = 1; { let a = true; print a; } print a; } print a; }`
Shadow3 ==
    << Tk("LeftBrace") >> \o LetOf("a", Num(0))
    \o << Tk("LeftBrace") >> \o LetOf("a", Num(1))
    \o << Tk("LeftBrace") >> \o LetOf("a", Tk("True")) \o PrintOf("a")
    \o << Tk("RightBrace") >> \o PrintOf("a")
    \o << Tk("RightBrace") >> \o PrintOf("a")
    \o << Tk("RightBrace"), Tk("Eof") >>

\* `let a = 0; let b = 1; a = true; print a; print b;`, at the top level
\* or inside a block
Assigning(local) ==
    (IF local THEN << Tk("LeftBrace") >> ELSE << >>)
    \o LetOf("a", Num(0)) \o LetOf("b", Num(1))
    \o << Ident("a"), Tk("Equal"), Tk("True"), Tk("Semicolon") >>
    \o PrintOf("a") \o PrintOf("b")
    \o (IF local THEN << Tk("RightBrace") >> ELSE << >>)
    \o << Tk("Eof") >>

\* a block of STACK_SIZE + 1 declarations `let b;`, then `print a;`
DeepProgram ==
    << Tk("LeftBrace") >>
    \o [j \in 1..(3 * (STACK_SIZE + 1)) |->
           << Tk("Let"), Ident("b"), Tk("Semicolon") >>[((j - 1) % 3) + 1]]
    \o PrintOf("a") \o << Tk("RightBrace"), Tk("Eof") >>

\* programs with nested scopes
ScopePrograms ==
    { Shadow(l, n, m) : l \in BOOLEAN, n \in {"a", "b"}, m \in {"a", "b"} }
    \cup { Shadow3 }
    \cup { Assigning(l) : l \in BOOLEAN }

\* `print "s" + "t";` and `print "t" + "s";`: two different strings added
ConcatPrograms ==
    { << TkPrint, Str(x), Tk("Plus"), Str(y), Tk("Semicolon"), Tk("Eof") >> :
        x \in {"s", "t"}, y \in {"s", "t"} }

\* the operators an assignment target is put behind: none, a unary one, a
\* binary one, both
TargetPrefixes ==
    { << >>, << Tk("Minus") >>, << Tk("Bang") >>, << Num(1), Tk("Plus") >>,
      << Num(1), Tk("Plus"), Tk("Minus") >> }

\* `let a = 0; <prefix> a = 1;`, at the top level or inside a block
OperandAssign(local, prefix) ==
    (IF local THEN << Tk("LeftBrace") >> ELSE << >>)
    \o LetOf("a", Num(0))
    \o prefix \o << Ident("a"), Tk("Equal"), Num(1), Tk("Semicolon") >>
    \o (IF local THEN << Tk("RightBrace") >> ELSE << >>)
    \o << Tk("Eof") >>

AssignPrograms ==
    { OperandAssign(l, pre) : l \in BOOLEAN, pre \in TargetPrefixes }

\* the statements `print a;`, `let a = 1;` and `1 + 1;`
Commented ==
    { PrintOf("a"), LetOf("a", Num(1)),
      << Num(1), Tk("Plus"), Num(1), Tk("Semicolon") >> }

\* these statements with one Comment token before, inside or behind
CommentPrograms ==
    UNION { { SubSeq(st, 1, n) \o << Tk("Comment") >>
                  \o SubSeq(st, n + 1, Len(st)) \o << Tk("Eof") >> :
                n \in 0..Len(st) } :
            st \in Commented }

Inputs ==
    Programs \cup RawStreams \cup ExprPrograms \cup ScopePrograms
    \cup ConcatPrograms \cup AssignPrograms \cup CommentPrograms

\* the sources of the calls after the first: `print a;`
LaterInputs ==
    { PrintOf("a") \o << Tk("Eof") >> }

\* the characters source texts are made of: punctuation of one and of two
\* characters, a quote, a digit, a dot, a letter, whitespace, and a character
\* no token starts with
SourceAlphabet ==
    { ";", "=", "/", "\"", "1", ".", "a", " ", "\n", "#" }

\* the source texts of at most MaxSrc characters
Sources ==
    UNION { [1..n -> SourceAlphabet] : n \in 0..MaxSrc }

\* the reserved words, letter by letter
ReservedWords ==
    { << "s", "t", "r", "u", "c", "t" >>,
      << "t", "r", "a", "i", "t" >>,
      << "i", "m", "p", "l" >>,
      << "i", "f" >>,
      << "e", "l", "s", "e" >>,
      << "t", "r", "u", "e" >>,
      << "f", "a", "l", "s", "e" >>,
      << "f", "n" >>,
      << "n", "i", "l" >>,
      << "a", "n", "d" >>,
      << "o", "r" >>,
      << "r", "e", "t", "u", "r", "n" >>,
      << "s", "u", "p", "e", "r" >>,
      << "s", "e", "l", "f" >>,
      << "l", "e", "t" >>,
      << "c", "o", "n", "s", "t" >>,
      << "l", "o", "o", "p" >>,
      << "f", "o", "r" >>,
      << "w", "h", "i", "l", "e" >>,
      << "b", "r", "e", "a", "k" >>,
      << "s", "w", "i", "t", "c", "h" >>,
      << "c", "o", "n", "t", "i", "n", "u", "e" >>,
      << "p", "r", "i", "n", "t" >> }

\* identifiers that are no reserved word: a prefix of one, one with a letter
\* more, one in another case
OtherWords ==
    { << "l", "e" >>, << "l", "e", "t", "s" >>, << "L", "e", "t" >>,
      << "p", "r", "i", "n", "t", "_", "1" >>, << "_" >> }

\* `word;` for each of these words
WordSources ==
    { w \o << ";" >> : w \in ReservedWords \cup OtherWords }

(***************************************************************************)
(* The state machine: the calls of VM::interpret_source on one VM, the     *)
(* first on a fresh one, each from its token stream on: Compiler::compile, *)
(* VM::reset, and VM::run one loop iteration at a time.                    *)
(***************************************************************************)
VARIABLES
    tokens,   \* the token stream compiled
    phase,    \* "source", "compiled" (compile returned or panicked), "run"
    parser,   \* the Parser of Compiler::compile, at its return once compiled
    vm,       \* the VM
    trace,    \* observation: pc, stack and globals at the head of each of
              \* the first MaxTrace iterations of the loop of VM::run so
              \* far, in this call
    calls,    \* the number of calls of interpret_source begun
    before,   \* observation: the VM when this call began
    source,   \* the source text handed to Lexer::scan_tokens
    lex       \* the Lexer of Lexer::scan_tokens, at its return once "lexed"

vars == << tokens, phase, parser, vm, trace, calls, before, source, lex >>

Init ==
    /\ tokens \in Inputs
    /\ phase = "source"
    /\ parser = ParserNew(tokens)
    /\ vm = VMNew
    /\ trace = << >>
    /\ calls = 1
    /\ before = VMNew
    /\ source = << >>
    /\ lex = LexerNew(source)

\* Compiler::compile(tokens)
Compile ==
    /\ phase = "source"
    /\ parser' = compile(tokens)
    /\ phase' = "compiled"
    /\ UNCHANGED << tokens, vm, trace, calls, before, source, lex >>

\* VM::interpret_source from `self.reset(chunk)` to the entry of run
Reset ==
    /\ phase = "compiled"
    /\ parser.res = "ok"
    /\ vm' = [reset(vm, parser.bytecode) EXCEPT !.status = "running"]
    /\ phase' = "run"
    /\ UNCHANGED << tokens, parser, trace, calls, before, source, lex >>

\* one iteration of the loop of VM::run
Step ==
    /\ phase = "run"
    /\ vm.status = "running"
    /\ vm' = run_iteration(vm)
    /\ trace' = IF Len(trace) < MaxTrace
                 THEN Append(trace, [pc |-> vm.pc, stack |-> vm.stack,
                                     globals |-> vm.globals])
                 ELSE trace
    /\ UNCHANGED << tokens, phase, parser, calls, before, source, lex >>

\* interpret_source has returned, Ok or Err, and is called again on the
\* same VM with another source
Again ==
    /\ \/ phase = "run" /\ vm.status \in {"ok", "err"}
       \/ phase = "compiled" /\ parser.res = "err"
    /\ calls < MaxCalls
    /\ tokens' \in LaterInputs
    /\ phase' = "source"
    /\ parser' = ParserNew(tokens')
    /\ trace' = << >>
    /\ calls' = calls + 1
    /\ before' = vm
    /\ UNCHANGED << vm, source, lex >>

Next ==
    \/ Compile
    \/ Reset
    \/ Step
    \/ Again

Spec ==
    Init /\ [][Next]_vars

\* the same program, the loop of VM::run going on while it may: a thread
\* inside `while self.pc < self.chunk.instructions_len()` is not suspended
SpecRun ==
    Init /\ [][Next]_vars /\ WF_vars(Step)

\* the same program started on the one source DeepProgram
InitDeep ==
    /\ tokens = DeepProgram
    /\ phase = "source"
    /\ parser = ParserNew(tokens)
    /\ vm = VMNew
    /\ trace = << >>
    /\ calls = 1
    /\ before = VMNew
    /\ source = << >>
    /\ lex = LexerNew(source)

SpecDeep ==
    InitDeep /\ [][Next]_vars

\* Lexer::scan_tokens(source)
ScanTokens ==
    /\ phase = "text"
    /\ lex' = scan_tokens(source)
    /\ phase' = "lexed"
    /\ UNCHANGED << tokens, parser, vm, trace, calls, before, source >>

\* Compiler::compile_source(source): phase "compiled" once
\* Compiler::compile was called and returned or panicked, "refused" once
\* the bail! on the lexer's errors returned, "aborted" once the lexer panicked
CompileSource ==
    /\ phase = "text"
    /\ LET Returned(r) ==
               /\ lex' = r.lex
               /\ parser' = r.p
               /\ tokens' = r.p.tokens
               /\ phase' = IF r.invoked THEN "compiled"
                            ELSE IF r.res = "err" THEN "refused"
                            ELSE "aborted"
       IN  Returned(compile_source(source))
    /\ UNCHANGED << vm, trace, calls, before, source >>

\* the lexer, alone and under compile_source, on every source text of
\* Sources and of WordSources
InitLex ==
    /\ source \in Sources \cup WordSources
    /\ phase = "text"
    /\ lex = LexerNew(source)
    /\ tokens = << >>
    /\ parser = ParserNew(tokens)
    /\ vm = VMNew
    /\ trace = << >>
    /\ calls = 1
    /\ before = VMNew

NextLex ==
    \/ ScanTokens
    \/ CompileSource

SpecLex ==
    InitLex /\ [][NextLex]_vars

(***************************************************************************)
(* Vocabulary of the properties.                                           *)
(***************************************************************************)
\* Compiler::compile has returned Ok(chunk)
Compiled ==
    phase # "source" /\ parser.res = "ok"

\* the compile printed no parse error and every expression began at a
\* token with a prefix rule
ParsedCleanly ==
    parser.out = << >> /\ parser.obs.noprefix = << >>

Code ==
    parser.bytecode.instructions

Constants ==
    parser.bytecode.constants

\* the indices of the words decoded as opcodes when the words are walked
\* from index j, an operand-taking opcode being followed by one operand
RECURSIVE Starts(_, _)
Starts(code, j) ==
    IF j >= Len(code) THEN {}
    ELSE {j} \cup Starts(code, j + (IF HasOperand(code[j + 1]) THEN 2 ELSE 1))

\* the walk ends inside an operand pair
Truncated(code) ==
    \E j \in Starts(code, 0) : HasOperand(code[j + 1]) /\ j + 1 >= Len(code)

\* the instructions of a chunk, each operand resolved: the constant of a
\* constant index, the slot of a local as a Number
RECURSIVE Disasm(_, _)
Disasm(chunk, j) ==
    LET code == chunk.instructions
    IN  IF j >= Len(code) THEN << >>
        ELSE LET op == OpcodeTy(code[j + 1])
             IN  IF ~HasOperand(code[j + 1])
                 THEN << [op |-> op, arg |-> Nil] >> \o Disasm(chunk, j + 1)
                 ELSE IF j + 1 >= Len(code)
                 THEN << [op |-> "truncated", arg |-> Nil] >>
                 ELSE LET k == code[j + 2]
                          arg == IF op \in {"GetLocal", "SetLocal"}
                                 THEN Number(F64Int(k))
                                 ELSE IF k < Len(chunk.constants)
                                 THEN chunk.constants[k + 1]
                                 ELSE Nil
                      IN  << [op |-> op, arg |-> arg] >> \o Disasm(chunk, j + 2)

\* the heads of the iterations of the loop of VM::run so far, the one the
\* run is at included
Heads ==
    { trace[i] : i \in 1..Len(trace) }
    \cup (IF phase = "run" /\ vm.status = "running"
          THEN { [pc |-> vm.pc, stack |-> vm.stack, globals |-> vm.globals] }
          ELSE {})

\* the opcode the i-th iteration executed ("none": the loop ended there)
OpAt(i) ==
    IF trace[i].pc < Len(vm.chunk.instructions)
    THEN OpcodeTy(vm.chunk.instructions[trace[i].pc + 1])
    ELSE "none"

\* the stack the i-th iteration left
StackAfter(i) ==
    IF i < Len(trace) THEN trace[i + 1].stack ELSE vm.stack

\* the i-th iteration ended the run with an error or a panic
FailedAt(i) ==
    i = Len(trace) /\ vm.status \in {"err", "panic"}

IsAtom(tok) ==
    tok.ty \in {"Ident", "Number", "String", "True", "False", "Nil"}

(***************************************************************************)
(* C1  Walking the words of a chunk compile returned, from word 0 and      *)
(* honouring operand lengths, never ends inside an operand pair, and the   *)
(* one Return it decodes is the last word.                                 *)
(***************************************************************************)
C1_WalkEndsAtReturn ==
    Compiled =>
        /\ ~Truncated(Code)
        /\ { j \in Starts(Code, 0) : OpcodeTy(Code[j + 1]) = "Return" }
               = { Len(Code) - 1 }

\* a chunk returned after error recovery with an operand word 0 (the tag of
\* Return) inside it
C1_Witness ==
    /\ Compiled
    /\ parser.out # << >>
    /\ \E j \in Starts(Code, 0) :
           HasOperand(Code[j + 1]) /\ j + 2 < Len(Code) /\ Code[j + 2] = 0

(***************************************************************************)
(* C2  Every GetLocal S / SetLocal S was emitted with S below the number   *)
(* of locals of the compiler, and when the VM is about to execute it the   *)
(* operand stack holds at least S + 1 values.  Stated for the programs     *)
(* that parse without any error (such as `{ let a = a; }`), so that a      *)
(* violation does not rest on the error recovery of C9 and C24.            *)
(***************************************************************************)
C2_LocalSlotsLive ==
    LET ops == parser.obs.localOps
    IN  /\ \A k \in 1..Len(ops) : ops[k].slot < ops[k].nlocals
        /\ ParsedCleanly =>
               \A k \in 1..Len(ops) : \A h \in Heads :
                   h.pc = ops[k].at => Len(h.stack) >= ops[k].slot + 1

(***************************************************************************)
(* C3  While the VM runs a compiled chunk, at every statement boundary the *)
(* depth of the operand stack is the number of locals the compiler had     *)
(* live there; an expression statement, a print statement and a global let *)
(* leave the depth as it was, a let in a block raises it by one.           *)
(***************************************************************************)
C3_DepthIsLocals ==
    \A k \in 1..Len(parser.obs.marks) : \A h \in Heads :
        LET mk == parser.obs.marks[k]
        IN  h.pc = mk.at =>
                /\ Len(h.stack) = mk.nlocals
                /\ \A g \in Heads :
                       (g.pc = mk.from /\ mk.kind # "block" /\ ~mk.failed) =>
                           Len(h.stack) - Len(g.stack)
                               = (IF mk.kind = "let local" THEN 1 ELSE 0)

\* the same, for the programs that parse without any error
C3_DepthIsLocalsWhenParsedCleanly ==
    ParsedCleanly => C3_DepthIsLocals

(***************************************************************************)
(* C4  The bytecode of a block statement leaves the operand stack at the   *)
(* depth it had before the first instruction of the block.                 *)
(***************************************************************************)
C4_BlockKeepsDepth ==
    \A k \in 1..Len(parser.obs.blocks) : \A g \in Heads : \A h \in Heads :
        LET b == parser.obs.blocks[k]
        IN  (g.pc = b.from /\ h.pc = b.to) => Len(h.stack) = Len(g.stack)

\* the same, for the programs that parse without any error
C4_BlockKeepsDepthWhenParsedCleanly ==
    ParsedCleanly => C4_BlockKeepsDepth

(***************************************************************************)
(* C5  end_scope decrements scope_depth by one, removes exactly the locals *)
(* deeper than the new scope_depth, which leaves those of the enclosing    *)
(* scopes at their indices, and emits one Pop per removed local and        *)
(* nothing else.                                                           *)
(***************************************************************************)
C5_EndScopeEffect ==
    \A k \in 1..Len(parser.obs.scopes) :
        LET sc      == parser.obs.scopes[k]
            Stays(l) == l.depth <= sc.after.scope_depth
            removed == Len(sc.before.locals) - Len(sc.after.locals)
        IN  /\ sc.after.scope_depth = sc.before.scope_depth - 1
            /\ sc.after.locals = SelectSeq(sc.before.locals, Stays)
            /\ sc.after.locals = SubSeq(sc.before.locals, 1, Len(sc.after.locals))
            /\ sc.code = [n \in 1..removed |-> OpcodeType.Pop]

\* an end_scope that removed a local and kept one of an enclosing block
C5_Witness ==
    \E k \in 1..Len(parser.obs.scopes) :
        LET sc == parser.obs.scopes[k]
        IN  /\ Len(sc.after.locals) >= 1
            /\ Len(sc.before.locals) > Len(sc.after.locals)

(***************************************************************************)
(* C6  In a compiled chunk the operand K of every DefineGlobal, GetGlobal  *)
(* and SetGlobal is an index into the constants, and constants[K] is the   *)
(* String of the lexeme of the identifier the instruction was compiled     *)
(* from.                                                                   *)
(***************************************************************************)
C6_GlobalOperandIsName ==
    Compiled =>
        \A j \in Starts(Code, 0) :
            OpcodeTy(Code[j + 1]) \in {"DefineGlobal", "GetGlobal", "SetGlobal"} =>
                /\ j + 1 < Len(Code)
                /\ Code[j + 2] < Len(Constants)
                /\ Constants[Code[j + 2] + 1].k = "String"
                /\ \E g \in 1..Len(parser.obs.globalOps) :
                       /\ parser.obs.globalOps[g].at = j
                       /\ parser.obs.globalOps[g].name = Constants[Code[j + 2] + 1].s

\* a chunk with the three global opcodes, one of them on a constant other
\* than the first
C6_Witness ==
    /\ Compiled
    /\ \A op \in {"DefineGlobal", "GetGlobal", "SetGlobal"} :
           \E j \in Starts(Code, 0) : OpcodeTy(Code[j + 1]) = op
    /\ \E j \in Starts(Code, 0) :
           OpcodeTy(Code[j + 1]) = "SetGlobal" /\ Code[j + 2] > 0

(***************************************************************************)
(* C7  Equal pops two operands and pushes Boolean(true) exactly when they  *)
(* are of the same variant with the same payload.                          *)
(***************************************************************************)
\* the same variant with the same payload (the two zeros are one number)
SameValue(a, b) ==
    /\ a.k = b.k
    /\ CASE a.k = "Number"  -> a.f = b.f \/ (F64IsZero(a.f) /\ F64IsZero(b.f))
         [] a.k = "Boolean" -> a.b = b.b
         [] a.k = "String"  -> a.s = b.s
         [] a.k = "Nil"     -> TRUE

IsNaN(v) ==
    v.k = "Number" /\ v.f.cls = "nan"

\* the claim as made: violated by Number(NaN), which is not equal to itself
C7_EqualIsSameValue ==
    \A i \in 1..Len(trace) :
        LET st == trace[i].stack
            n  == Len(st)
        IN  (OpAt(i) = "Equal" /\ n >= 2) =>
                /\ ~FailedAt(i)
                /\ StackAfter(i) =
                       Append(SubSeq(st, 1, n - 2), Boolean(SameValue(st[n - 1], st[n])))

\* C7 as amended: ... and are not the Number NaN
C7_EqualIsSameValueButNaN ==
    \A i \in 1..Len(trace) :
        LET st == trace[i].stack
            n  == Len(st)
        IN  (OpAt(i) = "Equal" /\ n >= 2) =>
                /\ ~FailedAt(i)
                /\ StackAfter(i) =
                       Append(SubSeq(st, 1, n - 2),
                              Boolean(SameValue(st[n - 1], st[n]) /\ ~IsNaN(st[n])))

\* Equal executed on two NaN and pushed false
C7_Witness ==
    \E i \in 1..Len(trace) :
        LET st == trace[i].stack
            n  == Len(st)
        IN  /\ OpAt(i) = "Equal"
            /\ n >= 2
            /\ IsNaN(st[n - 1])
            /\ IsNaN(st[n])
            /\ StackAfter(i) = Append(SubSeq(st, 1, n - 2), Boolean(FALSE))

(***************************************************************************)
(* C8  Compiling the statement `X b Y = Z ;` (`=` after the right operand  *)
(* of a binary operator b, as in `a + b = 1;`) makes compile return an     *)
(* error and no chunk.                                                     *)
(***************************************************************************)
C8_AssignAfterBinaryFails ==
    ( /\ phase # "source"
      /\ Len(tokens) = 7
      /\ IsAtom(tokens[1])
      /\ tokens[2].ty \in BinaryTypes
      /\ IsAtom(tokens[3])
      /\ tokens[4].ty = "Equal"
      /\ IsAtom(tokens[5])
      /\ tokens[6].ty = "Semicolon" )
    => parser.res = "err"

(***************************************************************************)
(* C9  When a declaration raised a parse error, compile returns that first *)
(* error to its caller, and no chunk.                                      *)
(***************************************************************************)
C9_FirstErrorReturned ==
    (phase # "source" /\ parser.out # << >>) =>
        /\ parser.res = "err"
        /\ parser.msg = parser.out[1]

(***************************************************************************)
(* C10  A unary `-` or `!` binds tighter than every binary operator: for   *)
(* `u X b Y` the compiler emits the code of X, the opcode of u, the code   *)
(* of Y, the opcodes of b.                                                 *)
(***************************************************************************)
\* the instruction an operand compiles to at scope depth 0
AtomCode(tok) ==
    CASE tok.ty = "Ident" -> << [op |-> "GetGlobal", arg |-> ObjString(tok.lexeme)] >>
      [] tok.ty \in {"Number", "String"} -> << [op |-> "Constant", arg |-> tok.literal] >>
      [] OTHER -> << [op |-> tok.ty, arg |-> Nil] >>

Ins(op) ==
    [op |-> op, arg |-> Nil]

\* the opcodes of the operators (spec 4.2.2)
UnaryCode(ty) ==
    IF ty = "Minus" THEN << Ins("Negate") >> ELSE << Ins("Not") >>

BinaryCode(ty) ==
    CASE ty = "Plus"         -> << Ins("Add") >>
      [] ty = "Minus"        -> << Ins("Subtract") >>
      [] ty = "Star"         -> << Ins("Mult") >>
      [] ty = "ForwardSlash" -> << Ins("Div") >>
      [] ty = "EqualEqual"   -> << Ins("Equal") >>
      [] ty = "BangEqual"    -> << Ins("Equal"), Ins("Not") >>
      [] ty = "Lt"           -> << Ins("LessThan") >>
      [] ty = "Gt"           -> << Ins("GreaterThan") >>
      [] ty = "Le"           -> << Ins("GreaterThan"), Ins("Not") >>
      [] ty = "Ge"           -> << Ins("LessThan"), Ins("Not") >>

C10_UnaryBindsTighter ==
    ( /\ phase # "source"
      /\ Len(tokens) = 7
      /\ tokens[1].ty = "Print"
      /\ tokens[2].ty \in UnaryTypes
      /\ IsAtom(tokens[3])
      /\ tokens[4].ty \in BinaryTypes
      /\ IsAtom(tokens[5])
      /\ tokens[6].ty = "Semicolon" )
    => /\ parser.res = "ok"
       /\ Disasm(parser.bytecode, 0) =
              AtomCode(tokens[3]) \o UnaryCode(tokens[2].ty)
              \o AtomCode(tokens[5]) \o BinaryCode(tokens[4].ty)
              \o << Ins("Print"), Ins("Return") >>

(***************************************************************************)
(* C11  Between binary operators of different tiers (Equality <            *)
(* Comparison < Term < Factor) the higher tier binds tighter, whatever the *)
(* order: for `X b Y c Z` the compiler emits X, Y, Z, c, b when c is of    *)
(* the higher tier and X, Y, b, Z, c when b is.                            *)
(***************************************************************************)
\* the tier of a binary operator (spec 4.2.2)
Tier(ty) ==
    CASE ty \in {"EqualEqual", "BangEqual"} -> 1
      [] ty \in {"Lt", "Le", "Gt", "Ge"}    -> 2
      [] ty \in {"Plus", "Minus"}           -> 3
      [] ty \in {"Star", "ForwardSlash"}    -> 4

\* the program compiled is `print X b Y c Z ;`
IsChain ==
    /\ phase # "source"
    /\ Len(tokens) = 8
    /\ tokens[1].ty = "Print"
    /\ IsAtom(tokens[2])
    /\ tokens[3].ty \in BinaryTypes
    /\ IsAtom(tokens[4])
    /\ tokens[5].ty \in BinaryTypes
    /\ IsAtom(tokens[6])
    /\ tokens[7].ty = "Semicolon"

\* the code of (X b Y) c Z and of X b (Y c Z)
LeftFirst ==
    AtomCode(tokens[2]) \o AtomCode(tokens[4]) \o BinaryCode(tokens[3].ty)
    \o AtomCode(tokens[6]) \o BinaryCode(tokens[5].ty)
    \o << Ins("Print"), Ins("Return") >>

RightFirst ==
    AtomCode(tokens[2]) \o AtomCode(tokens[4]) \o AtomCode(tokens[6])
    \o BinaryCode(tokens[5].ty) \o BinaryCode(tokens[3].ty)
    \o << Ins("Print"), Ins("Return") >>

C11_HigherTierBindsTighter ==
    (IsChain /\ Tier(tokens[3].ty) # Tier(tokens[5].ty)) =>
        /\ parser.res = "ok"
        /\ parser.out = << >>
        /\ Disasm(parser.bytecode, 0) =
               IF Tier(tokens[3].ty) < Tier(tokens[5].ty)
               THEN RightFirst ELSE LeftFirst

\* `print 1 + 1 * 0;` has run and printed 1
C11_Witness ==
    /\ IsChain
    /\ tokens[3].ty = "Plus"
    /\ tokens[5].ty = "Star"
    /\ vm.status = "ok"
    /\ vm.stdout = << Number(F64Int(1)) >>

(***************************************************************************)
(* C12  Binary operators of one tier associate to the left: for            *)
(* `X b Y c Z` with b and c of the same tier the compiler emits X, Y, b,   *)
(* Z, c.                                                                   *)
(***************************************************************************)
C12_SameTierAssociatesLeft ==
    (IsChain /\ Tier(tokens[3].ty) = Tier(tokens[5].ty)) =>
        /\ parser.res = "ok"
        /\ parser.out = << >>
        /\ Disasm(parser.bytecode, 0) = LeftFirst

\* `print 1 - 1 - 1;` has run and printed -1
C12_Witness ==
    /\ IsChain
    /\ tokens[3].ty = "Minus"
    /\ tokens[5].ty = "Minus"
    /\ vm.status = "ok"
    /\ vm.stdout = << Number(F64Int(-1)) >>

(***************************************************************************)
(* C13  An identifier resolves to the topmost local of its name in the     *)
(* locals stack, and to the global when no local has the name; once the    *)
(* block of a local has ended, the identifier resolves to the enclosing    *)
(* binding again: `let a = 0; { let a = 1; print a; } print a;` prints 1   *)
(* then 0, at the top level as well as inside a block, and the three       *)
(* nested bindings of Shadow3 print true, 1, 0.                            *)
(***************************************************************************)
\* the values a finished run of a shadowing program has printed
ShadowOutput ==
    IF tokens = Shadow3
    THEN << Boolean(TRUE), Number(F64Int(1)), Number(F64Int(0)) >>
    ELSE << Number(F64Int(1)), Number(F64Int(0)) >>

C13_InnermostLocalWins ==
    /\ \A k \in 1..Len(parser.obs.resolved) :
           LET r    == parser.obs.resolved[k]
               hits == { j \in 1..Len(r.locals) : r.locals[j].name.lexeme = r.name }
           IN  IF hits = {} THEN r.slot = -1
               ELSE r.slot + 1 \in hits /\ \A h \in hits : h <= r.slot + 1
    /\ (phase # "source"
           /\ tokens \in {Shadow(FALSE, "a", "a"), Shadow(TRUE, "a", "a"), Shadow3}) =>
           /\ parser.res = "ok"
           /\ vm.status \notin {"err", "panic"}
           /\ vm.status = "ok" => vm.stdout = ShadowOutput

\* the run of Shadow3 has ended and printed true, 1, 0
C13_Witness ==
    /\ tokens = Shadow3
    /\ vm.status = "ok"
    /\ vm.stdout = << Boolean(TRUE), Number(F64Int(1)), Number(F64Int(0)) >>

(***************************************************************************)
(* C14  SetGlobal and SetLocal never pop: after either succeeded the       *)
(* operand stack has the depth and the top value it had before; SetGlobal  *)
(* leaves the whole stack as it was, SetLocal S changes slot S only, to    *)
(* the top value.                                                          *)
(***************************************************************************)
\* the operand word of the instruction the i-th iteration executed
OperandAt(i) ==
    vm.chunk.instructions[trace[i].pc + 2]

C14_AssignmentKeepsValue ==
    \A i \in 1..Len(trace) :
        LET st == trace[i].stack
            af == StackAfter(i)
            n  == Len(st)
        IN  (OpAt(i) \in {"SetGlobal", "SetLocal"} /\ ~FailedAt(i)) =>
                /\ n >= 1
                /\ Len(af) = n
                /\ af[n] = st[n]
                /\ OpAt(i) = "SetGlobal" => af = st
                /\ OpAt(i) = "SetLocal" =>
                       /\ OperandAt(i) < n
                       /\ af = [st EXCEPT ![OperandAt(i) + 1] = st[n]]

\* a SetLocal of a slot below the top stored a new value, and the run of
\* `{ let a = 0; let b = 1; a = true; print a; print b; }` printed true, 1
C14_Witness ==
    /\ tokens = Assigning(TRUE)
    /\ vm.status = "ok"
    /\ vm.stdout = << Boolean(TRUE), Number(F64Int(1)) >>
    /\ \E i \in 1..Len(trace) :
           /\ OpAt(i) = "SetLocal"
           /\ OperandAt(i) + 1 < Len(trace[i].stack)
           /\ StackAfter(i) # trace[i].stack

(***************************************************************************)
(* C15  The names of the globals table grow only when a DefineGlobal       *)
(* executes, by the name of its operand; SetGlobal on a name that is not   *)
(* defined is a runtime error and leaves globals unchanged; no other       *)
(* opcode adds or removes a name.                                          *)
(***************************************************************************)
\* the globals the i-th iteration left
GlobalsAfter(i) ==
    IF i < Len(trace) THEN trace[i + 1].globals ELSE vm.globals

\* the i-th iteration executed a global opcode whose operand is the index
\* of a String constant
HasNameAt(i) ==
    /\ trace[i].pc + 1 < Len(vm.chunk.instructions)
    /\ OperandAt(i) < Len(vm.chunk.constants)
    /\ vm.chunk.constants[OperandAt(i) + 1].k = "String"

NameAt(i) ==
    vm.chunk.constants[OperandAt(i) + 1].s

C15_OnlyDefineGlobalAddsNames ==
    \A i \in 1..Len(trace) :
        LET g  == trace[i].globals
            ga == GlobalsAfter(i)
        IN  /\ OpAt(i) # "DefineGlobal" => DOMAIN ga = DOMAIN g
            /\ OpAt(i) = "DefineGlobal" =>
                   /\ DOMAIN g \subseteq DOMAIN ga
                   /\ DOMAIN ga # DOMAIN g =>
                          HasNameAt(i) /\ DOMAIN ga = DOMAIN g \cup {NameAt(i)}
            /\ (OpAt(i) = "SetGlobal" /\ HasNameAt(i) /\ NameAt(i) \notin DOMAIN g) =>
                   /\ FailedAt(i)
                   /\ vm.status = "err"
                   /\ ga = g

\* a DefineGlobal added a name, and a later SetGlobal of another name, not
\* defined, ended the run with an error
C15_Witness ==
    \E i \in 1..Len(trace) : \E j \in 1..Len(trace) :
        /\ i < j
        /\ OpAt(i) = "DefineGlobal"
        /\ DOMAIN GlobalsAfter(i) # DOMAIN trace[i].globals
        /\ OpAt(j) = "SetGlobal"
        /\ HasNameAt(j)
        /\ NameAt(j) \notin DOMAIN trace[j].globals
        /\ vm.status = "err"

NeedsAt(i) ==
    CASE OpAt(i) \in {"Pop", "Print", "Negate", "Not", "DefineGlobal", "SetGlobal"} -> 1
      [] OpAt(i) \in {"Add", "Subtract", "Mult", "Div", "Equal", "GreaterThan",
                      "LessThan"} -> 2
      [] OpAt(i) \in {"GetLocal", "SetLocal"} ->
             IF trace[i].pc + 1 < Len(vm.chunk.instructions)
             THEN OperandAt(i) + 1 ELSE 0
      [] OTHER -> 0

C17_UnderflowIsRuntimeError ==
    \A i \in 1..Len(trace) :
        (ParsedCleanly /\ Len(trace[i].stack) < NeedsAt(i)) =>
            /\ i = Len(trace)
            /\ vm.status = "err"

(***************************************************************************)
(* C18  When an instruction raises a runtime error, VM::run returns the    *)
(* error at once: no later instruction is executed, and the chunk and the  *)
(* globals are as they were before the failing instruction.                *)
(***************************************************************************)
\* the instruction of the i-th iteration raises a runtime error (spec 7:
\* stack underflow in a pop, type mismatch, undefined global, negation of
\* a non-number, unknown opcode)
RaisesAt(i) ==
    LET st == trace[i].stack
        n  == Len(st)
        op == OpAt(i)
    IN  \/ op \in {"Pop", "Print", "DefineGlobal"} /\ n = 0
        \/ op \in {"Add", "Subtract", "Mult", "Div", "Equal", "GreaterThan",
                   "LessThan"} /\ n < 2
        \/ /\ op = "Add"
           /\ n >= 2
           /\ ~ \/ st[n - 1].k = "Number" /\ st[n].k = "Number"
                \/ st[n - 1].k = "String" /\ st[n].k = "String"
        \/ /\ op \in {"Subtract", "Mult", "Div", "GreaterThan", "LessThan"}
           /\ n >= 2
           /\ (st[n - 1].k # "Number" \/ st[n].k # "Number")
        \/ op = "Negate" /\ n >= 1 /\ st[n].k # "Number"
        \/ /\ op \in {"GetGlobal", "SetGlobal"}
           /\ HasNameAt(i)
           /\ NameAt(i) \notin DOMAIN trace[i].globals
        \/ op = "Unknown"

C18_ErrorEndsRun ==
    \A i \in 1..Len(trace) :
        RaisesAt(i) =>
            /\ i = Len(trace)
            /\ vm.status = "err"
            /\ vm.globals = trace[i].globals
            /\ vm.chunk = parser.bytecode

\* a GetGlobal of an undefined name ended a run that had defined a global,
\* with instructions of the chunk left
C18_Witness ==
    /\ Len(trace) >= 1
    /\ OpAt(Len(trace)) = "GetGlobal"
    /\ RaisesAt(Len(trace))
    /\ DOMAIN trace[Len(trace)].globals # {}
    /\ vm.status = "err"
    /\ vm.pc + 1 < Len(vm.chunk.instructions)

(***************************************************************************)
(* C19  The operand stack never holds more than STACK_SIZE values: a push  *)
(* that would exceed the capacity ends the run with a runtime error.       *)
(***************************************************************************)
C19_StackIsBounded ==
    Len(vm.stack) <= STACK_SIZE

(***************************************************************************)
(* C20  The token sequence Lexer::scan_tokens returns ends with exactly    *)
(* one Eof token, whose lexeme is empty, and holds no Eof token before it. *)
(***************************************************************************)
C20_EndsWithOneEof ==
    (phase = "lexed" /\ lex.res = "ok") =>
        /\ Len(lex.tokens) > 0
        /\ lex.tokens[Len(lex.tokens)].ty = "Eof"
        /\ lex.tokens[Len(lex.tokens)].lexeme = ""
        /\ \A n \in 1..(Len(lex.tokens) - 1) : lex.tokens[n].ty # "Eof"

(***************************************************************************)
(* C21  Lexer::scan_tokens runs to the end of every source text and        *)
(* returns its tokens and errors: no text makes it panic, by an index, a   *)
(* slice or an assert! outside the source.                                 *)
(***************************************************************************)
C21_ScanTokensReturns ==
    phase = "lexed" =>
        /\ lex.res = "ok"
        /\ is_cursor_at_end(lex)

(***************************************************************************)
(* C22  When the source ends inside a string literal, the lexer records    *)
(* one "Unterminated string" error and pushes no String token for it.      *)
(***************************************************************************)
\* the String tokens of a token sequence
StringTokens(ts) ==
    { n \in 1..Len(ts) : ts[n].ty = "String" }

\* the positions of the '"' of a source text
Quotes(src) ==
    { n \in 1..Len(src) : src[n] = "\"" }

HasComment(src) ==
    \E n \in 1..(Len(src) - 1) : src[n] = "/" /\ src[n + 1] = "/"

\* the source ends inside a string literal: it has no comment, where a '"'
\* opens nothing, and an odd number of '"'
Unterminated(src) ==
    ~HasComment(src) /\ Cardinality(Quotes(src)) % 2 = 1

C22_UnterminatedStringHasNoToken ==
    (phase = "lexed" /\ lex.res = "ok" /\ Unterminated(source)) =>
        /\ Cardinality({ n \in 1..Len(lex.errors) :
                            lex.errors[n] = "Unterminated string" }) = 1
        /\ Cardinality(StringTokens(lex.tokens))
               = (Cardinality(Quotes(source)) - 1) \div 2

(***************************************************************************)
(* C23  compile_source returns an error, with no bytecode emitted,         *)
(* whenever the lexer reported an error, and calls the parser only when    *)
(* the lexer's error list is empty.                                        *)
(***************************************************************************)
\* compile_source has ended, the lexer having returned
SourceCompiled ==
    phase \in {"compiled", "refused"}

C23_LexErrorsRefuseCompile ==
    /\ (SourceCompiled /\ Len(lex.errors) > 0) =>
           /\ phase = "refused"
           /\ parser = ParserNew(<< >>)
           /\ parser.bytecode = ChunkNew
    /\ phase = "compiled" => Len(lex.errors) = 0

\* the text `#` was refused for its Unknown token, and no bytecode exists
C23_Witness ==
    /\ phase = "refused"
    /\ source = << "#" >>
    /\ Len(lex.errors) = 1
    /\ parser.bytecode = ChunkNew

(***************************************************************************)
(* C24  When the token an expression must start at has no prefix rule,     *)
(* parse_precedence raises a parse error: compile has then reported one.   *)
(***************************************************************************)
C24_NoPrefixIsParseError ==
    (Compiled /\ parser.res = "ok" /\ parser.obs.noprefix # << >>) =>
        parser.out # << >>

(***************************************************************************)
(* C25  An Add that finds two operands pops both; two Numbers leave their   *)
(* sum in their place, two Strings leave the first-pushed followed by the  *)
(* second-pushed, and any other pair ends the run with a runtime error     *)
(* and leaves nothing in their place.                                      *)
(***************************************************************************)
C25_AddSumsOrConcatenates ==
    \A i \in 1..Len(trace) :
        LET st  == trace[i].stack
            n   == Len(st)
            a   == st[n - 1]
            b   == st[n]
            pre == SubSeq(st, 1, n - 2)
        IN  (OpAt(i) = "Add" /\ n >= 2) =>
                IF a.k = "Number" /\ b.k = "Number"
                THEN /\ ~FailedAt(i)
                     /\ StackAfter(i) = pre \o << Number(F64Add(a.f, b.f)) >>
                ELSE IF a.k = "String" /\ b.k = "String"
                THEN /\ ~FailedAt(i)
                     /\ StackAfter(i) = pre \o << ObjString(a.s \o b.s) >>
                ELSE /\ i = Len(trace)
                     /\ vm.status = "err"
                     /\ vm.stack = pre

\* `print "s" + "t";` has run: the Add left "st"
C25_Witness ==
    /\ tokens \in ConcatPrograms
    /\ \E i \in 1..Len(trace) :
           /\ OpAt(i) = "Add"
           /\ trace[i].stack = << ObjString("s"), ObjString("t") >>
           /\ StackAfter(i) = << ObjString("st") >>

(***************************************************************************)
(* C26  A GetGlobal of a name that is in globals pushes the value stored   *)
(* under it and leaves globals as they were; a GetGlobal of a name that is *)
(* not in globals ends the run with a runtime error and leaves the stack   *)
(* and globals as they were.                                               *)
(***************************************************************************)
C26_GetGlobalPushesOrFails ==
    \A i \in 1..Len(trace) :
        LET st == trace[i].stack
            g  == trace[i].globals
        IN  (OpAt(i) = "GetGlobal" /\ HasNameAt(i)) =>
                /\ GlobalsAfter(i) = g
                /\ IF NameAt(i) \in DOMAIN g
                   THEN /\ ~FailedAt(i)
                        /\ StackAfter(i) = Append(st, g[NameAt(i)])
                   ELSE /\ i = Len(trace)
                        /\ vm.status = "err"
                        /\ vm.stack = st

\* the run ended at a GetGlobal of a name that is not defined while another
\* name is, and the stack is the one the GetGlobal found
C26_Witness ==
    /\ vm.status = "err"
    /\ Len(trace) >= 1
    /\ OpAt(Len(trace)) = "GetGlobal"
    /\ HasNameAt(Len(trace))
    /\ DOMAIN vm.globals # {}
    /\ NameAt(Len(trace)) \notin DOMAIN vm.globals
    /\ vm.stack = trace[Len(trace)].stack

(***************************************************************************)
(* C27  A reserved word, `print` among them, is lexed as a token of its    *)
(* keyword kind and not as Ident; any other identifier is lexed as Ident.  *)
(***************************************************************************)
\* the source text is `word;` and the lexer returned
LexedWord(w) ==
    phase = "lexed" /\ lex.res = "ok" /\ source = w \o << ";" >>

\* the kind of the first token, "none" without one
FirstKind ==
    IF Len(lex.tokens) = 0 THEN "none" ELSE lex.tokens[1].ty

C27_KeywordsAreNotIdents ==
    /\ \A w \in ReservedWords : LexedWord(w) => FirstKind \notin {"Ident", "none"}
    /\ \A w \in OtherWords : LexedWord(w) => FirstKind = "Ident"

(***************************************************************************)
(* C28  SetLocal or SetGlobal is emitted for an identifier only where it   *)
(* is parsed at precedence Assignment or lower: in `let a = 0; a = 1;` the *)
(* assignment is compiled, and with the `a` behind a unary or a binary     *)
(* operator (`-a = 1`, `!a = 1`, `1 + a = 1`, `1 + -a = 1`) the `=` is not *)
(* compiled as an assignment, at the top level and in a block alike.       *)
(***************************************************************************)
\* the opcodes SetGlobal and SetLocal of the bytecode
SetOps ==
    { j \in Starts(Code, 0) : OpcodeTy(Code[j + 1]) \in {"SetGlobal", "SetLocal"} }

C28_AssignmentOnlyAtAssignmentLevel ==
    \A l \in BOOLEAN, pre \in TargetPrefixes :
        (phase # "source" /\ parser.res # "panic"
            /\ tokens = OperandAssign(l, pre)) =>
            (SetOps # {} <=> pre = << >>)

(***************************************************************************)
(* C29  Each synchronize returns with the cursor at the first position,    *)
(* from the one it was entered at, where the token before the cursor is    *)
(* `;` or the token at the cursor is one of struct, fn, let, for, if,      *)
(* while, print, return or Eof; no Eof lies before that position.          *)
(***************************************************************************)
\* a position synchronize stops at
SyncPoint(j) ==
    /\ j < Len(tokens)
    /\ \/ tokens[j + 1].ty \in {"Eof", "Struct", "Fn", "Let", "For", "If",
                                "While", "Print", "Return"}
       \/ (j > 0 /\ tokens[j].ty = "Semicolon")

C29_SynchronizeStopsAtFirstBoundary ==
    (phase # "source" /\ parser.res # "panic") =>
        \A n \in 1..Len(parser.obs.syncs) :
            LET s == parser.obs.syncs[n]
            IN  /\ s.from <= s.to
                /\ SyncPoint(s.to)
                /\ \A j \in s.from..(s.to - 1) :
                       ~SyncPoint(j) /\ tokens[j + 1].ty # "Eof"

\* a synchronize skipped two tokens and stopped behind a `;` with a token
\* that is no keyword and no Eof ahead
C29_Witness ==
    /\ phase # "source"
    /\ parser.res # "panic"
    /\ \E n \in 1..Len(parser.obs.syncs) :
           LET s == parser.obs.syncs[n]
           IN  /\ s.to >= s.from + 2
               /\ tokens[s.to].ty = "Semicolon"
               /\ tokens[s.to + 1].ty \notin {"Eof", "Struct", "Fn", "Let", "For",
                                              "If", "While", "Print", "Return"}

(***************************************************************************)
(* C30  A `let` compiled at scope depth 0 leaves the locals as they were   *)
(* and emits the code of its initializer, or Nil without one, and then     *)
(* DefineGlobal with the index of the constant holding its name; a `let`   *)
(* compiled at a depth above 0 pushes one Local of its name and the        *)
(* current depth and emits the code of its initializer, or Nil, and        *)
(* nothing else: no DefineGlobal and no constant for the name.             *)
(***************************************************************************)
\* the words the declaration of mark mk emitted
Emitted(mk) ==
    SubSeq(Code, mk.from + 1, mk.at)

\* the tokens of the declaration of mark mk, from the one after `let`
LetName(mk) ==
    tokens[mk.tok + 2].lexeme

HasInitializer(mk) ==
    tokens[mk.tok + 3].ty = "Equal"

\* the initializer is one Number or String token
AtomInitializer(mk) ==
    /\ HasInitializer(mk)
    /\ tokens[mk.tok + 4].ty \in {"Number", "String"}
    /\ tokens[mk.tok + 5].ty = "Semicolon"

\* the constants added while the declaration was compiled
AddedConstants(mk) ==
    { Constants[c] : c \in (mk.nconst0 + 1)..mk.nconst }

\* the words decoded as DefineGlobal among the emitted ones
DefinesIn(mk) ==
    { j \in Starts(Emitted(mk), 0) :
        Emitted(mk)[j + 1] = OpcodeType.DefineGlobal }

C30_LetDefinesGlobalOrLocal ==
    (phase # "source" /\ parser.res # "panic") =>
        \A n \in 1..Len(parser.obs.marks) :
            LET mk == parser.obs.marks[n]
                e  == Emitted(mk)
                k  == e[Len(e)]
            IN  /\ (mk.kind = "let global" /\ ~mk.failed) =>
                       /\ mk.depth = 0
                       /\ mk.nlocals = mk.nlocals0
                       /\ Len(e) >= 3
                       /\ DefinesIn(mk) = {Len(e) - 2}
                       /\ k >= mk.nconst0 /\ k < mk.nconst
                       /\ Constants[k + 1] = ObjString(LetName(mk))
                       /\ ~HasInitializer(mk) =>
                              e = << OpcodeType.Nil, OpcodeType.DefineGlobal, k >>
                       /\ AtomInitializer(mk) =>
                              /\ e = << OpcodeType.Constant, k + 1,
                                        OpcodeType.DefineGlobal, k >>
                              /\ Constants[k + 2] = tokens[mk.tok + 4].literal
                /\ (mk.kind = "let local" /\ ~mk.failed) =>
                       /\ mk.depth > 0
                       /\ mk.nlocals = mk.nlocals0 + 1
                       /\ mk.top.name.lexeme = LetName(mk)
                       /\ mk.top.depth = mk.depth
                       /\ DefinesIn(mk) = {}
                       /\ ObjString(LetName(mk)) \notin AddedConstants(mk)
                       /\ ~HasInitializer(mk) =>
                              e = << OpcodeType.Nil >> /\ mk.nconst = mk.nconst0
                       /\ AtomInitializer(mk) =>
                              /\ e = << OpcodeType.Constant, mk.nconst0 >>
                              /\ mk.nconst = mk.nconst0 + 1
                              /\ Constants[mk.nconst] = tokens[mk.tok + 4].literal

\* a program with a `let` at depth 0 and one in a block, with and without
\* initializer, has been compiled
C30_Witness ==
    /\ Compiled
    /\ ParsedCleanly
    /\ \E n, m \in 1..Len(parser.obs.marks) :
           LET g == parser.obs.marks[n]
               l == parser.obs.marks[m]
           IN  /\ g.kind = "let global" /\ ~g.failed /\ AtomInitializer(g)
               /\ l.kind = "let local" /\ ~l.failed /\ ~HasInitializer(l)
               /\ l.depth = 1
               /\ l.nlocals = 1

(***************************************************************************)
(* C31  Subtract, Mult, Div, GreaterThan and LessThan take the value       *)
(* pushed first as the left operand and the value pushed second as the    *)
(* right one, and replace both by the result (LessThan by true exactly     *)
(* when first < second); when one of the two is not a Number the run ends  *)
(* with a runtime error and no result is pushed.                           *)
(***************************************************************************)
C31_BinaryOperandOrder ==
    \A i \in 1..Len(trace) :
        LET st  == trace[i].stack
            n   == Len(st)
            a   == st[n - 1]
            b   == st[n]
            pre == SubSeq(st, 1, n - 2)
            op  == OpAt(i)
        IN  (op \in {"Subtract", "Mult", "Div", "GreaterThan", "LessThan"}
                /\ n >= 2) =>
                IF a.k = "Number" /\ b.k = "Number"
                THEN /\ ~FailedAt(i)
                     /\ StackAfter(i) = pre \o
                            << CASE op = "Subtract"    -> Number(F64Sub(a.f, b.f))
                                 [] op = "Mult"        -> Number(F64Mul(a.f, b.f))
                                 [] op = "Div"         -> Number(F64Div(a.f, b.f))
                                 [] op = "GreaterThan" -> Boolean(F64Gt(a.f, b.f))
                                 [] op = "LessThan"    -> Boolean(F64Lt(a.f, b.f)) >>
                ELSE /\ i = Len(trace)
                     /\ vm.status = "err"
                     /\ Len(vm.stack) < n
                     /\ vm.stack = SubSeq(st, 1, Len(vm.stack))

\* a LessThan found 0 pushed first and 1 pushed second and left true
C31_Witness ==
    \E i \in 1..Len(trace) :
        /\ OpAt(i) = "LessThan"
        /\ trace[i].stack = << Number(F64Int(0)), Number(F64Int(1)) >>
        /\ StackAfter(i) = << Boolean(TRUE) >>

(***************************************************************************)
(* C32  Whitespace at the end of the text gives no token and no error:     *)
(* the lexer returns for the text the tokens, an Eof aside, and the errors *)
(* it returns for the text without its trailing whitespace.                *)
(***************************************************************************)
\* the tokens that are no Eof
NonEof(ts) ==
    SelectSeq(ts, LAMBDA t : t.ty # "Eof")

PcAfter(i) ==
    IF i < Len(trace) THEN trace[i + 1].pc ELSE vm.pc

PcAdvances ==
    /\ Len(trace) >= 1 => trace[1].pc = 0
    /\ (phase = "run" /\ trace = << >> /\ vm.status = "running") => vm.pc = 0
    /\ \A i \in 1..Len(trace) :
           /\ (OpAt(i) # "none" /\ ~FailedAt(i)) =>
                  PcAfter(i) = trace[i].pc
                      + (IF OpAt(i) \in {"Constant", "DefineGlobal", "GetGlobal",
                                         "SetGlobal", "GetLocal", "SetLocal"}
                         THEN 2 ELSE 1)
           /\ OpAt(i) = "Return" => i = Len(trace) /\ vm.status = "ok"
           /\ OpAt(i) = "none" => i = Len(trace) /\ vm.status = "ok"

C33_RunTerminates ==
    /\ []PcAdvances
    /\ (phase = "run" /\ vm.status = "running") ~> (vm.status # "running")

\* a run of more than one iteration, one of them with an operand, has
\* ended at its Return
C33_Witness ==
    /\ vm.status = "ok"
    /\ Len(trace) > 2
    /\ OpAt(Len(trace)) = "Return"
    /\ \E i \in 1..(Len(trace) - 1) :
           OpAt(i) = "Constant" /\ PcAfter(i) = trace[i].pc + 2

(***************************************************************************)
(* C34  On a token stream whose last token is its only Eof, the compile    *)
(* never reads a token outside the stream and leaves the cursor at or      *)
(* before the Eof.                                                         *)
(***************************************************************************)
\* the stream ends with its only Eof
EndsWithEof(ts) ==
    /\ Len(ts) >= 1
    /\ \A n \in 1..Len(ts) : ts[n].ty = "Eof" <=> n = Len(ts)

C34_CursorStaysBeforeEof ==
    (phase # "source" /\ EndsWithEof(tokens)) =>
        /\ parser.res # "panic"
        /\ parser.i <= Len(tokens) - 1

(***************************************************************************)
(* C35  The compile of a token stream that ends with Eof comes to an end:  *)
(* every declaration that returns, also one that failed and was recovered  *)
(* from by synchronize, has moved the cursor forward by at least one       *)
(* token, so there are no more declarations than tokens, and the loop of   *)
(* compile is left with the cursor on the Eof.                             *)
(***************************************************************************)
C35_DeclarationsConsume ==
    (phase # "source" /\ EndsWithEof(tokens)) =>
        /\ \A n \in 1..Len(parser.obs.marks) :
               parser.obs.marks[n].until > parser.obs.marks[n].tok
        /\ Len(parser.obs.marks) <= Len(tokens) - 1
        /\ parser.res = "ok" =>
               /\ parser.i = Len(tokens) - 1
               /\ Len(Code) >= 1
               /\ Code[Len(Code)] = OpcodeType.Return

\* a declaration failed at a `;`-terminated statement, synchronize returned
\* without skipping, and the compile went on to the Eof
C35_Witness ==
    /\ phase # "source"
    /\ EndsWithEof(tokens)
    /\ parser.res = "ok"
    /\ parser.i = Len(tokens) - 1
    /\ \E n \in 1..Len(parser.obs.marks), k \in 1..Len(parser.obs.syncs) :
           /\ parser.obs.marks[n].failed
           /\ parser.obs.syncs[k].from = parser.obs.syncs[k].to
           /\ parser.obs.syncs[k].to = parser.obs.marks[n].until
           /\ parser.obs.marks[n].until < Len(tokens) - 1

(***************************************************************************)
(* C36  Scopes are balanced: every declaration that completes, with or     *)
(* without error recovery, leaves scope_depth as it found it, and when the *)
(* compile finishes scope_depth is 0 and there are no locals.              *)
(***************************************************************************)
C36_ScopesAreBalanced ==
    (phase # "source" /\ parser.res = "ok" /\ EndsWithEof(tokens)) =>
        /\ parser.compiler.scope_depth = 0
        /\ parser.compiler.locals = << >>
        /\ \A n \in 1..Len(parser.obs.marks) :
               parser.obs.marks[n].depth1 = parser.obs.marks[n].depth

(***************************************************************************)
(* C37  A call of interpret_source whose source does not compile, be it    *)
(* that compile returned an error or that a parse error was reported,      *)
(* leaves the VM as the call found it: pc, chunk, operand stack and        *)
(* globals are unchanged and no instruction is executed.                   *)
(***************************************************************************)
\* the compile of this call has failed
CompileFailed ==
    /\ phase # "source"
    /\ parser.res = "err" \/ parser.out # << >>

WithoutComments(ts) ==
    SelectSeq(ts, LAMBDA t : t.ty # "Comment")

C38_CommentsAreIgnored ==
    (phase # "source" /\ WithoutComments(tokens) # tokens) =>
        /\ Code = compile(WithoutComments(tokens)).bytecode.instructions
        /\ parser.res = compile(WithoutComments(tokens)).res
        /\ parser.out = compile(WithoutComments(tokens)).out

=============================================================================
